---- MODULE Spec2Model ----
(***************************************************************************)
(* A model of the Mazo resume / job-description parser: the four-tier      *)
(* skill matcher (pages/Index.tsx as kept in src/utils/geminiParser.ts,    *)
(* components/CandidateTable.tsx and the listing of                        *)
(* TECHNICAL_DOCUMENTATION.md), the upload / report session of the         *)
(* Index page, parseDocument and processBatch (components/DocumentParser,  *)
(* kept in src/unnamed/part_000), the experience estimator of              *)
(* utils/geminiParser.ts, and the phone / e-mail extractors of             *)
(* components/DocumentParser and utils/parser/contactExtractor.ts.         *)
(*                                                                         *)
(* JavaScript strings are modelled as sequences of one-character strings,  *)
(* so that includes / startsWith / endsWith / split / trim / toLowerCase   *)
(* are computed rather than assumed.                                       *)
(***************************************************************************)
EXTENDS Integers, Sequences, FiniteSets, TLC

VARIABLES
    \* ---- extractSkillsFromText (one call) ----
    skText,               \* the text handed to extractSkillsFromText
    skCall,               \* the call made: <<[aggressive, returned]>>, or None
    \* ---- the experience verdict of a report row ----
    qxCandidate,          \* candidate.experience of a report row
    qxJd,                 \* jd.experience of the row
    qxCall,               \* the verdict computed: <<[site, result]>>, or None
    \* ---- getTextFromFile (one call) ----
    gtFile,               \* the file handed to getTextFromFile
    gtType,               \* the MIME type the call dispatches on
    gtResult,             \* how the promise settled: <<[status, text]>>, or None
    \* ---- the Index page with overlapping handlers ----
    ixJobDescriptions,    \* jobDescriptions: each document as the number of its upload
    ixCandidates,         \* candidates, likewise
    ixIsProcessing,       \* isProcessing
    ixRuns,               \* the handlers between their awaits
    ixCalls,              \* handler calls so far
    ixLast,               \* what the last step of a handler did
    \* ---- retryWithExponentialBackoff (one call) ----
    rtPc,                 \* where retryWithExponentialBackoff stands: attempt, waiting, done
    rtI,                  \* the loop variable i
    rtLastError,          \* lastError
    rtAttempts,           \* how each call of operation() ended
    rtDelays,             \* the delays waited, in ms
    rtSettled,            \* how the call settled: <<[status, value]>>, or None
    \* ---- handleResumeUpload (one upload) ----
    ruFiles,              \* the names of the files handed to handleResumeUpload
    ruOutcomes,           \* per file, whether it can be parsed
    ruParsedResumes,      \* what processBatch returned: <<list>>, or None
    ruNewCandidates,      \* newCandidates: <<list>>, or None
    \* ---- the contact functions (one call at a time) ----
    ctText,               \* the text handed to the extractors
    ctCandidate,          \* the string handed to cleanPhone / isValidEmail
    ctCall,               \* the call made last: its function and what it returned
    \* ---- skill matcher (one call of each copy on the same arguments) ----
    candidateSkills,      \* argument: list of entries (strings or non-strings)
    requiredSkills,       \* argument: list of entries (strings or non-strings)
    matchPercentage,      \* result of Index.calculateMatchPercentage, or None
    tableMatchPercentage, \* result of CandidateTable.calculateMatchPercentage, or None
    docMatchPercentage,   \* result of the documented calculateMatchPercentage, or None
    \* ---- the Index page (useState values and handlers in flight) ----
    jobDescriptions,      \* useState<ParsedDocument[]>
    candidates,           \* useState<Candidate[]>
    isProcessing,         \* useState(false)
    jdUploadRun,          \* handleJDUpload between its awaits: <<closure>>, or None
    resumeUploadRun,      \* handleResumeUpload between its awaits: <<closure>>, or None
    parseRun,             \* handleParse between its awaits: <<closure>>, or None
    reportData,           \* the rows of the workbook written by the step just taken, else <<>>
    \* ---- one call of parseDocument(file, type) ----
    pdFile,               \* the File argument: its name, whether it decodes, its text
    pdType,               \* 'resume' | 'jd'
    pdPc,                 \* "start", "oracle", "catch", "resolved" or "rejected"
    pdOracle,             \* how the parseWithGemini call ended, "" before it
    pdParsedData,         \* what parseWithGemini returned, <<>> before it
    pdFallbackText,       \* the text the catch block works on, as <<text>>
    pdResult,             \* the record the promise resolved with, as <<record>>
    \* ---- one call of processBatch(files, type, onProgress) ----
    pbFiles,              \* files.length; file k is files[k - 1]
    pbCalls,              \* per file: "queued", "inflight", "fulfilled" or "rejected"
    pbStarted,            \* the files in the order their parseDocument calls were started
    pbI,                  \* the loop variable i
    pbPc,                 \* "loop", "await", "delay" or "returned"
    pbResults,            \* results: the file whose record was pushed, per entry
    pbProgress,           \* what onProgress was last called with, as <<num, den>>
    \* ---- one call of extractExperienceYears(text) ----
    exRanges,             \* the date ranges the work history was written from
    exText,               \* the text
    exToday,              \* new Date(), to the day
    exResult              \* the string returned, as <<string>>

matchVars == <<candidateSkills, requiredSkills, matchPercentage, tableMatchPercentage,
              docMatchPercentage>>

sessionVars == <<jobDescriptions, candidates, isProcessing, jdUploadRun, resumeUploadRun,
                 parseRun, reportData>>

parseVars == <<pdFile, pdType, pdPc, pdOracle, pdParsedData, pdFallbackText, pdResult>>

batchVars == <<pbFiles, pbCalls, pbStarted, pbI, pbPc, pbResults, pbProgress>>

experienceVars == <<exRanges, exText, exToday, exResult>>

contactVars == <<ctText, ctCandidate, ctCall>>
skillsVars == <<skText, skCall>>
qualifyVars == <<qxCandidate, qxJd, qxCall>>
getTextVars == <<gtFile, gtType, gtResult>>
indexVars == <<ixJobDescriptions, ixCandidates, ixIsProcessing, ixRuns, ixCalls, ixLast>>
retryVars == <<rtPc, rtI, rtLastError, rtAttempts, rtDelays, rtSettled>>
resumeUploadVars == <<ruFiles, ruOutcomes, ruParsedResumes, ruNewCandidates>>
vars ==
    <<matchVars, sessionVars, parseVars, batchVars, experienceVars, contactVars,
      skillsVars, qualifyVars, getTextVars, indexVars, retryVars, resumeUploadVars>>

\* a result not yet produced; a produced result r is held as <<r>>
None == <<>>

\* the parts of the state a specification does not use stay as constructed
MatchIdle ==
    /\ candidateSkills = <<>>
    /\ requiredSkills = <<>>
    /\ matchPercentage = None
    /\ tableMatchPercentage = None
    /\ docMatchPercentage = None

SessionIdle ==
    /\ jobDescriptions = <<>>
    /\ candidates = <<>>
    /\ isProcessing = FALSE
    /\ jdUploadRun = None
    /\ resumeUploadRun = None
    /\ parseRun = None
    /\ reportData = <<>>

ParseIdle ==
    /\ pdFile = <<>>
    /\ pdType = ""
    /\ pdPc = "idle"
    /\ pdOracle = ""
    /\ pdParsedData = <<>>
    /\ pdFallbackText = <<>>
    /\ pdResult = <<>>

BatchIdle ==
    /\ pbFiles = 0
    /\ pbCalls = <<>>
    /\ pbStarted = <<>>
    /\ pbI = 0
    /\ pbPc = "idle"
    /\ pbResults = <<>>
    /\ pbProgress = <<>>

ExperienceIdle ==
    /\ exRanges = <<>>
    /\ exText = <<>>
    /\ exToday = <<>>
    /\ exResult = <<>>

\* no call made yet
NoCall == [fn |-> "", returned |-> <<>>]

ContactIdle ==
    /\ ctText = <<>>
    /\ ctCandidate = <<>>
    /\ ctCall = NoCall

SkillsIdle ==
    /\ skText = <<>>
    /\ skCall = None

QualifyIdle ==
    /\ qxCandidate = <<>>
    /\ qxJd = <<>>
    /\ qxCall = None

GetTextIdle ==
    /\ gtFile = <<>>
    /\ gtType = ""
    /\ gtResult = None

IndexIdle ==
    /\ ixJobDescriptions = <<>>
    /\ ixCandidates = <<>>
    /\ ixIsProcessing = FALSE
    /\ ixRuns = {}
    /\ ixCalls = 0
    /\ ixLast = [handler |-> "", outcome |-> "", detail |-> [user |-> FALSE, insert |-> "", written |-> FALSE]]

RetryIdle ==
    /\ rtPc = ""
    /\ rtI = 0
    /\ rtLastError = <<>>
    /\ rtAttempts = <<>>
    /\ rtDelays = <<>>
    /\ rtSettled = <<>>

ResumeUploadIdle ==
    /\ ruFiles = <<>>
    /\ ruOutcomes = <<>>
    /\ ruParsedResumes = <<>>
    /\ ruNewCandidates = <<>>

(***************************************************************************)
(* JavaScript string primitives                                            *)
(***************************************************************************)

\* String.prototype.includes
Includes(s, t) ==
    \E i \in 0..(Len(s) - Len(t)) : SubSeq(s, i + 1, i + Len(t)) = t

\* String.prototype.startsWith
StartsWith(s, t) ==
    Len(t) <= Len(s) /\ SubSeq(s, 1, Len(t)) = t

\* String.prototype.endsWith
EndsWith(s, t) ==
    Len(t) <= Len(s) /\ SubSeq(s, Len(s) - Len(t) + 1, Len(s)) = t

\* one character of String.prototype.toLowerCase (the letters the inputs use)
LowerChar(c) ==
    CASE c = "A" -> "a"
      [] c = "B" -> "b"
      [] c = "C" -> "c"
      [] c = "D" -> "d"
      [] c = "E" -> "e"
      [] c = "F" -> "f"
      [] c = "G" -> "g"
      [] c = "H" -> "h"
      [] c = "I" -> "i"
      [] c = "J" -> "j"
      [] c = "K" -> "k"
      [] c = "L" -> "l"
      [] c = "M" -> "m"
      [] c = "N" -> "n"
      [] c = "O" -> "o"
      [] c = "P" -> "p"
      [] c = "Q" -> "q"
      [] c = "R" -> "r"
      [] c = "S" -> "s"
      [] c = "T" -> "t"
      [] c = "U" -> "u"
      [] c = "V" -> "v"
      [] c = "W" -> "w"
      [] c = "X" -> "x"
      [] c = "Y" -> "y"
      [] c = "Z" -> "z"
      [] OTHER -> c

\* String.prototype.toLowerCase
ToLowerCase(s) == [i \in 1..Len(s) |-> LowerChar(s[i])]

RECURSIVE TrimStart(_)
TrimStart(s) ==
    IF s # <<>> /\ Head(s) = " " THEN TrimStart(Tail(s)) ELSE s

RECURSIVE TrimEnd(_)
TrimEnd(s) ==
    IF s # <<>> /\ s[Len(s)] = " " THEN TrimEnd(SubSeq(s, 1, Len(s) - 1)) ELSE s

\* String.prototype.trim
Trim(s) == TrimEnd(TrimStart(s))

\* String.prototype.split(' '): the pieces between single spaces, empty pieces kept
RECURSIVE SplitAcc(_, _, _)
SplitAcc(s, cur, acc) ==
    IF s = <<>> THEN Append(acc, cur)
    ELSE IF Head(s) = " " THEN SplitAcc(Tail(s), <<>>, Append(acc, cur))
    ELSE SplitAcc(Tail(s), Append(cur, Head(s)), acc)

SplitOnSpace(s) == SplitAcc(s, <<>>, <<>>)

\* Array.prototype.includes on a list of strings
ListIncludes(list, x) == \E i \in 1..Len(list) : list[i] = x

\* Math.round of the non-negative rational num / den (halves round up)
RoundDiv(num, den) == (2 * num + den) \div (2 * den)

(***************************************************************************)
(* Skill entries: a JSON array element is a string or something else       *)
(***************************************************************************)
Str(s) == [type |-> "string", value |-> s]
NonString == [type |-> "number", value |-> <<"4", "2">>]

\* typeof skill === 'string'
IsString(e) == e.type = "string"

s_java       == <<"j","a","v","a">>
s_Java_sp    == <<"J","a","v","a"," ">>
s_javascript == <<"j","a","v","a","s","c","r","i","p","t">>
s_aws_lambda == <<"a","w","s"," ","l","a","m","b","d","a">>
s_lambda     == <<"l","a","m","b","d","a">>
s_node       == <<"n","o","d","e">>
s_node_js    == <<"n","o","d","e"," ","j","s">>
s_nodejs     == <<"n","o","d","e",".","j","s">>
s_empty      == <<>>

\* the entries a candidate's skill list is drawn from
CandidateUniverse ==
    { Str(s_java), Str(s_javascript), Str(s_aws_lambda), Str(s_lambda),
      Str(s_nodejs), Str(s_empty), NonString }

\* the entries a job description's required-skill list is drawn from
RequiredUniverse ==
    { Str(s_java), Str(s_Java_sp), Str(s_aws_lambda), Str(s_lambda),
      Str(s_node), Str(s_node_js), Str(s_empty), NonString }

MaxCand == 1
MaxReq == 2

\* all lists over S of length at most n
SeqsUpTo(S, n) == UNION { [1..k -> S] : k \in 0..n }


(***************************************************************************)
(* The technology-equivalence table (the same literal in both copies)      *)
(***************************************************************************)
technologyEquivalents == <<
    << <<"s","q","l">>,
       <<"m","y","s","q","l">>,
       <<"p","o","s","t","g","r","e","s","q","l">>,
       <<"m","s"," ","s","q","l">>,
       <<"s","q","l"," ","s","e","r","v","e","r">> >>,
    << <<"a","w","s">>,
       <<"a","m","a","z","o","n"," ","w","e","b"," ","s","e","r","v","i","c","e","s">> >>,
    << <<"g","c","p">>,
       <<"g","o","o","g","l","e"," ","c","l","o","u","d"," ","p","l","a","t","f","o","r","m">>,
       <<"g","o","o","g","l","e"," ","c","l","o","u","d">> >>,
    << <<"a","z","u","r","e">>,
       <<"m","i","c","r","o","s","o","f","t"," ","a","z","u","r","e">> >>,
    << <<"r","e","a","c","t">>,
       <<"r","e","a","c","t",".","j","s">> >>,
    << <<"v","u","e">>,
       <<"v","u","e",".","j","s">> >>,
    << <<"a","n","g","u","l","a","r">>,
       <<"a","n","g","u","l","a","r",".","j","s">> >>,
    << <<"n","o","d","e">>,
       <<"n","o","d","e",".","j","s">> >>,
    << <<"m","l">>,
       <<"m","a","c","h","i","n","e"," ","l","e","a","r","n","i","n","g">> >>,
    << <<"a","i">>,
       <<"a","r","t","i","f","i","c","i","a","l"," ","i","n","t","e","l","l","i","g","e","n","c","e">> >>,
    << <<"c","i","/","c","d">>,
       <<"c","o","n","t","i","n","u","o","u","s"," ","i","n","t","e","g","r","a","t","i","o","n">>,
       <<"c","o","n","t","i","n","u","o","u","s"," ","d","e","p","l","o","y","m","e","n","t">> >>,
    << <<"k","8","s">>,
       <<"k","u","b","e","r","n","e","t","e","s">> >>
>>

(***************************************************************************)
(* calculateMatchPercentage, pages/Index.tsx copy                        *)
(***************************************************************************)

\* .filter(skill => typeof skill === 'string').map(skill => skill.toLowerCase().trim())
Normalize(list) ==
    LET strs == SelectSeq(list, IsString)
    IN  [i \in 1..Len(strs) |-> Trim(ToLowerCase(strs[i].value))]

\* a matcher that forgets which required skills it has already counted
Has_Forgetful(st, requiredSkill) == FALSE

\* matchedSkills.has(requiredSkill)
Has(st, requiredSkill) == requiredSkill \in st.matchedSkills

\* matchCount++; matchedSkills.set(requiredSkill, true)
Mark(st, requiredSkill) ==
    [matchCount |-> st.matchCount + 1,
     matchedSkills |-> st.matchedSkills \cup {requiredSkill}]

\* first loop: exact matches
RECURSIVE ExactLoop(_, _, _, _)
ExactLoop(req, cand, i, st) ==
    IF i > Len(req) THEN st
    ELSE IF ListIncludes(cand, req[i])
         THEN ExactLoop(req, cand, i + 1, Mark(st, req[i]))
         ELSE ExactLoop(req, cand, i + 1, st)

\* normalizedCandidateSkills.some(c => parts.every(part => c.includes(part)))
HasAllParts(requiredSkill, cand) ==
    LET parts == SplitOnSpace(requiredSkill)
    IN  \E j \in 1..Len(cand) : \A k \in 1..Len(parts) : Includes(cand[j], parts[k])

\* a substantial match that accepts any substring, word boundary or not
IsSubstantialMatch_Substring(candidateSkill, requiredSkill) ==
    Includes(candidateSkill, requiredSkill) \/ Includes(requiredSkill, candidateSkill)

\* isSubstantialMatch: one contains the other as a distinct word
IsSubstantialMatch(candidateSkill, requiredSkill) ==
    \/ Includes(candidateSkill, <<" ">> \o requiredSkill \o <<" ">>)
    \/ StartsWith(candidateSkill, requiredSkill \o <<" ">>)
    \/ EndsWith(candidateSkill, <<" ">> \o requiredSkill)
    \/ candidateSkill = requiredSkill
    \/ Includes(requiredSkill, <<" ">> \o candidateSkill \o <<" ">>)
    \/ StartsWith(requiredSkill, candidateSkill \o <<" ">>)
    \/ EndsWith(requiredSkill, <<" ">> \o candidateSkill)
    \/ requiredSkill = candidateSkill

\* inner loop over the candidate skills, left by break at the first substantial match
RECURSIVE SubstantialScan(_, _, _, _)
SubstantialScan(requiredSkill, cand, j, st) ==
    IF j > Len(cand) THEN st
    ELSE IF ~Has(st, requiredSkill) /\ IsSubstantialMatch(cand[j], requiredSkill)
         THEN Mark(st, requiredSkill)
         ELSE SubstantialScan(requiredSkill, cand, j + 1, st)

\* second loop: compound (partial) match, else substantial match
RECURSIVE PartialLoop(_, _, _, _)
PartialLoop(req, cand, i, st) ==
    IF i > Len(req) THEN st
    ELSE IF Has(st, req[i]) THEN PartialLoop(req, cand, i + 1, st)
    ELSE IF Includes(req[i], <<" ">>) /\ HasAllParts(req[i], cand)
         THEN PartialLoop(req, cand, i + 1, Mark(st, req[i]))
         ELSE PartialLoop(req, cand, i + 1, SubstantialScan(req[i], cand, 1, st))

\* hasEquivalent: some candidate skill is, or contains as a word, a member of the group
HasEquivalent(equivalentGroup, cand) ==
    \E j \in 1..Len(cand) : \E e \in 1..Len(equivalentGroup) :
        \/ cand[j] = equivalentGroup[e]
        \/ StartsWith(cand[j], equivalentGroup[e] \o <<" ">>)
        \/ EndsWith(cand[j], <<" ">> \o equivalentGroup[e])
        \/ Includes(cand[j], <<" ">> \o equivalentGroup[e] \o <<" ">>)

\* inner loop over the groups, left by break at the first group that matches
RECURSIVE GroupScan(_, _, _, _)
GroupScan(requiredSkill, cand, g, st) ==
    IF g > Len(technologyEquivalents) THEN st
    ELSE IF /\ ListIncludes(technologyEquivalents[g], requiredSkill)
            /\ HasEquivalent(technologyEquivalents[g], cand)
         THEN Mark(st, requiredSkill)
         ELSE GroupScan(requiredSkill, cand, g + 1, st)

\* third loop: technology equivalents
RECURSIVE EquivalentLoop(_, _, _, _)
EquivalentLoop(req, cand, i, st) ==
    IF i > Len(req) THEN st
    ELSE IF Has(st, req[i]) THEN EquivalentLoop(req, cand, i + 1, st)
    ELSE EquivalentLoop(req, cand, i + 1, GroupScan(req[i], cand, 1, st))

\* matchCount after the three loops
MatchCount(req, cand) ==
    LET s0 == [matchCount |-> 0, matchedSkills |-> {}]
        s1 == ExactLoop(req, cand, 1, s0)
        s2 == PartialLoop(req, cand, 1, s1)
        s3 == EquivalentLoop(req, cand, 1, s2)
    IN  s3.matchCount

calculateMatchPercentage(candSkills, reqSkills) ==
    IF Len(reqSkills) = 0 THEN 0
    ELSE IF Len(candSkills) = 0 THEN 0
    ELSE LET normalizedRequiredSkills == Normalize(reqSkills)
             normalizedCandidateSkills == Normalize(candSkills)
         IN  IF Len(normalizedRequiredSkills) = 0 THEN 0
             ELSE RoundDiv(100 * MatchCount(normalizedRequiredSkills, normalizedCandidateSkills),
                           Len(normalizedRequiredSkills))

(***************************************************************************)
(* calculateMatchPercentage, components/CandidateTable.tsx copy          *)
(***************************************************************************)

\* .filter(skill => typeof skill === 'string').map(skill => skill.toLowerCase().trim())
TableNormalize(list) ==
    LET strs == SelectSeq(list, IsString)
    IN  [i \in 1..Len(strs) |-> Trim(ToLowerCase(strs[i].value))]

\* matchedSkills.has(requiredSkill)
TableHas(st, requiredSkill) == requiredSkill \in st.matchedSkills

\* matchCount++; matchedSkills.set(requiredSkill, true)
TableMark(st, requiredSkill) ==
    [matchCount |-> st.matchCount + 1,
     matchedSkills |-> st.matchedSkills \cup {requiredSkill}]

\* first loop: exact matches
RECURSIVE TableExactLoop(_, _, _, _)
TableExactLoop(req, cand, i, st) ==
    IF i > Len(req) THEN st
    ELSE IF ListIncludes(cand, req[i])
         THEN TableExactLoop(req, cand, i + 1, TableMark(st, req[i]))
         ELSE TableExactLoop(req, cand, i + 1, st)

\* normalizedCandidateSkills.some(c => parts.every(part => c.includes(part)))
TableHasAllParts(requiredSkill, cand) ==
    LET parts == SplitOnSpace(requiredSkill)
    IN  \E j \in 1..Len(cand) : \A k \in 1..Len(parts) : Includes(cand[j], parts[k])

\* isSubstantialMatch: one contains the other as a distinct word
TableIsSubstantialMatch(candidateSkill, requiredSkill) ==
    \/ Includes(candidateSkill, <<" ">> \o requiredSkill \o <<" ">>)
    \/ StartsWith(candidateSkill, requiredSkill \o <<" ">>)
    \/ EndsWith(candidateSkill, <<" ">> \o requiredSkill)
    \/ candidateSkill = requiredSkill
    \/ Includes(requiredSkill, <<" ">> \o candidateSkill \o <<" ">>)
    \/ StartsWith(requiredSkill, candidateSkill \o <<" ">>)
    \/ EndsWith(requiredSkill, <<" ">> \o candidateSkill)
    \/ requiredSkill = candidateSkill

\* inner loop over the candidate skills, left by break at the first substantial match
RECURSIVE TableSubstantialScan(_, _, _, _)
TableSubstantialScan(requiredSkill, cand, j, st) ==
    IF j > Len(cand) THEN st
    ELSE IF ~TableHas(st, requiredSkill) /\ TableIsSubstantialMatch(cand[j], requiredSkill)
         THEN TableMark(st, requiredSkill)
         ELSE TableSubstantialScan(requiredSkill, cand, j + 1, st)

\* second loop: compound (partial) match, else substantial match
RECURSIVE TablePartialLoop(_, _, _, _)
TablePartialLoop(req, cand, i, st) ==
    IF i > Len(req) THEN st
    ELSE IF TableHas(st, req[i]) THEN TablePartialLoop(req, cand, i + 1, st)
    ELSE IF Includes(req[i], <<" ">>) /\ TableHasAllParts(req[i], cand)
         THEN TablePartialLoop(req, cand, i + 1, TableMark(st, req[i]))
         ELSE TablePartialLoop(req, cand, i + 1, TableSubstantialScan(req[i], cand, 1, st))

\* hasEquivalent: some candidate skill is, or contains as a word, a member of the group
TableHasEquivalent(equivalentGroup, cand) ==
    \E j \in 1..Len(cand) : \E e \in 1..Len(equivalentGroup) :
        \/ cand[j] = equivalentGroup[e]
        \/ StartsWith(cand[j], equivalentGroup[e] \o <<" ">>)
        \/ EndsWith(cand[j], <<" ">> \o equivalentGroup[e])
        \/ Includes(cand[j], <<" ">> \o equivalentGroup[e] \o <<" ">>)

\* inner loop over the groups, left by break at the first group that matches
RECURSIVE TableGroupScan(_, _, _, _)
TableGroupScan(requiredSkill, cand, g, st) ==
    IF g > Len(technologyEquivalents) THEN st
    ELSE IF /\ ListIncludes(technologyEquivalents[g], requiredSkill)
            /\ TableHasEquivalent(technologyEquivalents[g], cand)
         THEN TableMark(st, requiredSkill)
         ELSE TableGroupScan(requiredSkill, cand, g + 1, st)

\* third loop: technology equivalents
RECURSIVE TableEquivalentLoop(_, _, _, _)
TableEquivalentLoop(req, cand, i, st) ==
    IF i > Len(req) THEN st
    ELSE IF TableHas(st, req[i]) THEN TableEquivalentLoop(req, cand, i + 1, st)
    ELSE TableEquivalentLoop(req, cand, i + 1, TableGroupScan(req[i], cand, 1, st))

\* matchCount after the three loops
TableMatchCount(req, cand) ==
    LET s0 == [matchCount |-> 0, matchedSkills |-> {}]
        s1 == TableExactLoop(req, cand, 1, s0)
        s2 == TablePartialLoop(req, cand, 1, s1)
        s3 == TableEquivalentLoop(req, cand, 1, s2)
    IN  s3.matchCount

TableCalculateMatchPercentage(candSkills, reqSkills) ==
    IF Len(reqSkills) = 0 THEN 0
    ELSE IF Len(candSkills) = 0 THEN 0
    ELSE LET normalizedRequiredSkills == TableNormalize(reqSkills)
             normalizedCandidateSkills == TableNormalize(candSkills)
         IN  IF Len(normalizedRequiredSkills) = 0 THEN 0
             ELSE RoundDiv(100 * TableMatchCount(normalizedRequiredSkills, normalizedCandidateSkills),
                           Len(normalizedRequiredSkills))

(***************************************************************************)
(* calculateMatchPercentage, the listing in TECHNICAL_DOCUMENTATION.md     *)
(***************************************************************************)

\* the equivalents the listing spells out
DocEquivalents == <<
    << <<"s","q","l">>,
       <<"m","y","s","q","l">>,
       <<"p","o","s","t","g","r","e","s","q","l">>,
       <<"m","s"," ","s","q","l">>,
       <<"s","q","l"," ","s","e","r","v","e","r">> >>,
    << <<"a","w","s">>,
       <<"a","m","a","z","o","n"," ","w","e","b"," ","s","e","r","v","i","c","e","s">> >>,
    << <<"r","e","a","c","t">>,
       <<"r","e","a","c","t",".","j","s">> >>,
    << <<"v","u","e">>,
       <<"v","u","e",".","j","s">> >>,
    << <<"n","o","d","e">>,
       <<"n","o","d","e",".","j","s">> >>
>>

\* a JavaScript number: a finite value or NaN
Num(n) == [nan |-> FALSE, value |-> n]
NaN == [nan |-> TRUE, value |-> 0]

\* .filter(skill => typeof skill === 'string').map(skill => skill.toLowerCase().trim())
DocNormalize(list) ==
    LET strs == SelectSeq(list, IsString)
    IN  [i \in 1..Len(strs) |-> Trim(ToLowerCase(strs[i].value))]

\* matchedSkills.has(required)
DocHas(st, required) == required \in st.matchedSkills

\* matchCount++; matchedSkills.set(required, true)
DocMark(st, required) ==
    [matchCount |-> st.matchCount + 1,
     matchedSkills |-> st.matchedSkills \cup {required}]

\* 1. exact matches
RECURSIVE DocExactLoop(_, _, _, _)
DocExactLoop(req, cand, i, st) ==
    IF i > Len(req) THEN st
    ELSE IF ListIncludes(cand, req[i])
         THEN DocExactLoop(req, cand, i + 1, DocMark(st, req[i]))
         ELSE DocExactLoop(req, cand, i + 1, st)

\* normalizedCandidate.some(candidate => parts.every(part => candidate.includes(part)))
DocHasAllParts(required, cand) ==
    LET parts == SplitOnSpace(required)
    IN  \E j \in 1..Len(cand) : \A k \in 1..Len(parts) : Includes(cand[j], parts[k])

\* 2. partial matches (multi-word skills)
RECURSIVE DocPartialLoop(_, _, _, _)
DocPartialLoop(req, cand, i, st) ==
    IF i > Len(req) THEN st
    ELSE IF DocHas(st, req[i]) THEN DocPartialLoop(req, cand, i + 1, st)
    ELSE IF Includes(req[i], <<" ">>) /\ DocHasAllParts(req[i], cand)
         THEN DocPartialLoop(req, cand, i + 1, DocMark(st, req[i]))
         ELSE DocPartialLoop(req, cand, i + 1, st)

\* isMatch: the candidate skill contains the required skill as a distinct word
DocIsMatch(candidate, required) ==
    \/ Includes(candidate, <<" ">> \o required \o <<" ">>)
    \/ StartsWith(candidate, required \o <<" ">>)
    \/ EndsWith(candidate, <<" ">> \o required)
    \/ candidate = required

\* 3. substantial matches
RECURSIVE DocSubstantialLoop(_, _, _, _)
DocSubstantialLoop(req, cand, i, st) ==
    IF i > Len(req) THEN st
    ELSE IF DocHas(st, req[i]) THEN DocSubstantialLoop(req, cand, i + 1, st)
    ELSE IF \E j \in 1..Len(cand) : DocIsMatch(cand[j], req[i])
         THEN DocSubstantialLoop(req, cand, i + 1, DocMark(st, req[i]))
         ELSE DocSubstantialLoop(req, cand, i + 1, st)

\* hasEquivalent: some candidate skill contains a member of the group as a substring
DocHasEquivalent(group, cand) ==
    \E j \in 1..Len(cand) : \E e \in 1..Len(group) : Includes(cand[j], group[e])

\* 4. technology equivalents
RECURSIVE DocEquivalentLoop(_, _, _, _)
DocEquivalentLoop(req, cand, i, st) ==
    IF i > Len(req) THEN st
    ELSE IF DocHas(st, req[i]) THEN DocEquivalentLoop(req, cand, i + 1, st)
    ELSE IF \E g \in 1..Len(DocEquivalents) :
                /\ ListIncludes(DocEquivalents[g], req[i])
                /\ DocHasEquivalent(DocEquivalents[g], cand)
         THEN DocEquivalentLoop(req, cand, i + 1, DocMark(st, req[i]))
         ELSE DocEquivalentLoop(req, cand, i + 1, st)

\* matchCount after the four loops
DocMatchCount(req, cand) ==
    LET s0 == [matchCount |-> 0, matchedSkills |-> {}]
        s1 == DocExactLoop(req, cand, 1, s0)
        s2 == DocPartialLoop(req, cand, 1, s1)
        s3 == DocSubstantialLoop(req, cand, 1, s2)
        s4 == DocEquivalentLoop(req, cand, 1, s3)
    IN  s4.matchCount

\* Math.round((matchCount / normalizedRequired.length) * 100): 0 / 0 is NaN
DocCalculateMatchPercentage(candSkills, reqSkills) ==
    IF Len(reqSkills) = 0 \/ Len(candSkills) = 0 THEN Num(0)
    ELSE LET normalizedRequired == DocNormalize(reqSkills)
             normalizedCandidate == DocNormalize(candSkills)
         IN  IF Len(normalizedRequired) = 0 THEN NaN
             ELSE Num(RoundDiv(100 * DocMatchCount(normalizedRequired, normalizedCandidate),
                               Len(normalizedRequired)))

(***************************************************************************)
(* The matcher as a state machine: the arguments are drawn at Init, each   *)
(* copy is called once on them.                                            *)
(***************************************************************************)
InitMatch ==
    /\ candidateSkills \in SeqsUpTo(CandidateUniverse, MaxCand)
    /\ requiredSkills \in SeqsUpTo(RequiredUniverse, MaxReq)
    /\ matchPercentage = None
    /\ tableMatchPercentage = None
    /\ docMatchPercentage = None
    /\ SessionIdle
    /\ ParseIdle
    /\ BatchIdle
    /\ ExperienceIdle
    /\ ContactIdle
    /\ SkillsIdle
    /\ QualifyIdle
    /\ GetTextIdle
    /\ IndexIdle
    /\ RetryIdle
    /\ ResumeUploadIdle

\* the report page scores the pair
IndexCalculate ==
    /\ matchPercentage = None
    /\ matchPercentage' = <<calculateMatchPercentage(candidateSkills, requiredSkills)>>
    /\ UNCHANGED <<candidateSkills, requiredSkills, tableMatchPercentage, docMatchPercentage>>
    /\ UNCHANGED <<sessionVars, parseVars, batchVars, experienceVars, contactVars, skillsVars,
                   qualifyVars, getTextVars, indexVars, retryVars, resumeUploadVars>>

\* the candidate table scores the pair
TableCalculate ==
    /\ tableMatchPercentage = None
    /\ tableMatchPercentage' = <<TableCalculateMatchPercentage(candidateSkills, requiredSkills)>>
    /\ UNCHANGED <<candidateSkills, requiredSkills, matchPercentage, docMatchPercentage>>
    /\ UNCHANGED <<sessionVars, parseVars, batchVars, experienceVars, contactVars, skillsVars,
                   qualifyVars, getTextVars, indexVars, retryVars, resumeUploadVars>>

\* the documented listing scores the pair
DocCalculate ==
    /\ docMatchPercentage = None
    /\ docMatchPercentage' = <<DocCalculateMatchPercentage(candidateSkills, requiredSkills)>>
    /\ UNCHANGED <<candidateSkills, requiredSkills, matchPercentage, tableMatchPercentage>>
    /\ UNCHANGED <<sessionVars, parseVars, batchVars, experienceVars, contactVars, skillsVars,
                   qualifyVars, getTextVars, indexVars, retryVars, resumeUploadVars>>

NextMatch ==
    \/ IndexCalculate
    \/ TableCalculate
    \/ DocCalculate

SpecMatch == InitMatch /\ [][NextMatch]_vars


(***************************************************************************)
(* The Index page: handleJDUpload, handleResumeUpload, handleParse.        *)
(* A handler is an async function: it reads the jobDescriptions and        *)
(* candidates of the render it was created in (its closure), awaits, and   *)
(* then sets state.  Each handler is modelled by a Start step (up to its   *)
(* first await) and a Finish step (everything after its last await); one   *)
(* run of each handler is in flight at a time.                             *)
(***************************************************************************)
MAX_JD_COUNT == 10
MAX_RESUME_COUNT == 25
MAX_BATCH_SIZE == 100

\* model bounds: documents held per list, files per upload, handlers in flight at once
MaxHeld == 2
MaxFiles == 1
MaxInFlight == 1

\* what processBatch can return for a job description
JDUniverse ==
    { [title |-> "Backend", skills |-> <<Str(s_java)>>, experience |-> "3"],
      [title |-> "Data", skills |-> <<Str(s_lambda)>>, experience |-> "3"] }

\* what processBatch can return for a resume
ResumeUniverse ==
    { [name |-> "Asha", skills |-> <<Str(s_java)>>, experience |-> "4"],
      [name |-> "Ravi", skills |-> <<Str(s_aws_lambda)>>, experience |-> "2"] }

\* files[index].name of an uploaded resume
FileNameOf(index) == IF index = 1 THEN "resume1.pdf" ELSE "resume2.pdf"

\* jobDescriptions.map(jd => ({title, matchPercentage, experience, skills}))
PositionMatches(skills, jds) ==
    [k \in 1..Len(jds) |->
        [title |-> jds[k].title,
         matchPercentage |-> calculateMatchPercentage(skills, jds[k].skills),
         experience |-> jds[k].experience,
         skills |-> jds[k].skills]]

\* the reduce that keeps the first entry with the highest percentage
RECURSIVE BestOf(_, _, _)
BestOf(positionMatches, k, best) ==
    IF k > Len(positionMatches) THEN best
    ELSE BestOf(positionMatches, k + 1,
                IF positionMatches[k].matchPercentage > best.matchPercentage
                THEN positionMatches[k] ELSE best)

BestMatch(positionMatches) ==
    IF Len(positionMatches) > 0
    THEN BestOf(positionMatches, 1, positionMatches[1])
    ELSE [title |-> "", matchPercentage |-> 0, experience |-> "", skills |-> <<>>]

\* handleResumeUpload: the Candidate built from parsedResumes[index]
NewCandidate(parsed, index, jds) ==
    LET positionMatches == PositionMatches(parsed.skills, jds)
        bestMatch == BestMatch(positionMatches)
    IN  [name |-> parsed.name,
         skills |-> parsed.skills,
         experience |-> parsed.experience,
         matchPercentage |-> bestMatch.matchPercentage,
         fileName |-> FileNameOf(index),
         positionMatches |-> positionMatches,
         bestMatchingPosition |-> bestMatch.title]

\* handleJDUpload: "Recalculate skills matching for existing candidates with new job
\* descriptions"; cands and jds are the handler's closure values, parsedJDs is not read
UpdatedCandidates(cands, jds, parsedJDs) ==
    [c \in 1..Len(cands) |->
        LET positionMatches == PositionMatches(cands[c].skills, jds)
            bestMatch == BestMatch(positionMatches)
        IN  [cands[c] EXCEPT !.matchPercentage = bestMatch.matchPercentage,
                             !.positionMatches = positionMatches,
                             !.bestMatchingPosition = bestMatch.title]]

\* candidate.positionMatches.find(match => match.title === jd.title) || {.. matchPercentage: 0 ..}
MatchForThisJD(candidate, jd) ==
    LET hits == { k \in 1..Len(candidate.positionMatches) :
                    candidate.positionMatches[k].title = jd.title }
    IN  IF hits = {}
        THEN [title |-> jd.title, matchPercentage |-> 0,
              skills |-> jd.skills, experience |-> jd.experience]
        ELSE candidate.positionMatches[CHOOSE k \in hits : \A h \in hits : k <= h]

\* handleParse: jobDescriptions.flatMap((jd, jdIndex) => candidates.map(...))
ReportData(jds, cands) ==
    [n \in 1..(Len(jds) * Len(cands)) |->
        LET jdIndex == (n - 1) \div Len(cands)
            candidateIndex == (n - 1) % Len(cands)
            jd == jds[jdIndex + 1]
            candidate == cands[candidateIndex + 1]
        IN  [slNo |-> jdIndex * Len(cands) + candidateIndex + 1,
             jdName |-> jd.title,
             resumeName |-> candidate.fileName,
             candidateSkills |-> candidate.skills,
             jdSkills |-> jd.skills,
             skillsMatch |-> MatchForThisJD(candidate, jd).matchPercentage]]

InitSession == SessionIdle /\ MatchIdle /\ ParseIdle /\ BatchIdle /\ ExperienceIdle
    /\ ContactIdle
    /\ SkillsIdle
    /\ QualifyIdle
    /\ GetTextIdle
    /\ IndexIdle
    /\ RetryIdle
    /\ ResumeUploadIdle

\* the handlers between their awaits
InFlight ==
    (IF jdUploadRun = None THEN 0 ELSE 1) + (IF resumeUploadRun = None THEN 0 ELSE 1)
        + (IF parseRun = None THEN 0 ELSE 1)

\* handleJDUpload up to its first await
HandleJDUploadStart ==
    /\ jdUploadRun = None
    /\ InFlight < MaxInFlight
    /\ \E n \in 1..MaxFiles :
        /\ ~(n > MAX_BATCH_SIZE)
        /\ ~(Len(jobDescriptions) + n > MAX_JD_COUNT)
        /\ Len(jobDescriptions) + n <= MaxHeld
        /\ jdUploadRun' = <<[jobDescriptions |-> jobDescriptions,
                             candidates |-> candidates, files |-> n]>>
    /\ isProcessing' = TRUE
    /\ UNCHANGED <<jobDescriptions, candidates, resumeUploadRun, parseRun>>
    /\ reportData' = <<>>
    /\ UNCHANGED <<matchVars, parseVars, batchVars, experienceVars, contactVars, skillsVars,
                   qualifyVars, getTextVars, indexVars, retryVars, resumeUploadVars>>

\* handleJDUpload after getUser and processBatch have resolved
HandleJDUploadFinish ==
    /\ jdUploadRun # None
    /\ LET run == jdUploadRun[1] IN
        \E user \in BOOLEAN : \E parsedJDs \in [1..run.files -> JDUniverse] :
          IF ~user
          THEN UNCHANGED <<jobDescriptions, candidates>>
          ELSE /\ jobDescriptions' = jobDescriptions \o parsedJDs
               /\ IF Len(run.candidates) > 0
                  THEN candidates' = UpdatedCandidates(run.candidates, run.jobDescriptions, parsedJDs)
                  ELSE UNCHANGED candidates
    /\ isProcessing' = FALSE
    /\ jdUploadRun' = None
    /\ UNCHANGED <<resumeUploadRun, parseRun>>
    /\ reportData' = <<>>
    /\ UNCHANGED <<matchVars, parseVars, batchVars, experienceVars, contactVars, skillsVars,
                   qualifyVars, getTextVars, indexVars, retryVars, resumeUploadVars>>

\* handleResumeUpload up to its first await
HandleResumeUploadStart ==
    /\ resumeUploadRun = None
    /\ InFlight < MaxInFlight
    /\ \E n \in 1..MaxFiles :
        /\ ~(n > MAX_BATCH_SIZE)
        /\ ~(Len(candidates) + n > MAX_RESUME_COUNT)
        /\ Len(candidates) + n <= MaxHeld
        /\ resumeUploadRun' = <<[jobDescriptions |-> jobDescriptions,
                                 candidates |-> candidates, files |-> n]>>
    /\ isProcessing' = TRUE
    /\ UNCHANGED <<jobDescriptions, candidates, jdUploadRun, parseRun>>
    /\ reportData' = <<>>
    /\ UNCHANGED <<matchVars, parseVars, batchVars, experienceVars, contactVars, skillsVars,
                   qualifyVars, getTextVars, indexVars, retryVars, resumeUploadVars>>

\* handleResumeUpload after processBatch has resolved
HandleResumeUploadFinish ==
    /\ resumeUploadRun # None
    /\ LET run == resumeUploadRun[1] IN
        \E parsedResumes \in [1..run.files -> ResumeUniverse] :
          candidates' = candidates \o
              [index \in 1..Len(parsedResumes) |->
                  NewCandidate(parsedResumes[index], index, run.jobDescriptions)]
    /\ isProcessing' = FALSE
    /\ resumeUploadRun' = None
    /\ UNCHANGED <<jobDescriptions, jdUploadRun, parseRun>>
    /\ reportData' = <<>>
    /\ UNCHANGED <<matchVars, parseVars, batchVars, experienceVars, contactVars, skillsVars,
                   qualifyVars, getTextVars, indexVars, retryVars, resumeUploadVars>>

\* Generate Report is rendered when both lists are non-empty and enabled when
\* isProcessing is false; handleParse up to its first await
HandleParseStart ==
    /\ parseRun = None
    /\ InFlight < MaxInFlight
    /\ Len(jobDescriptions) > 0 /\ Len(candidates) > 0
    /\ ~isProcessing
    /\ isProcessing' = TRUE
    /\ parseRun' = <<[jobDescriptions |-> jobDescriptions, candidates |-> candidates]>>
    /\ UNCHANGED <<jobDescriptions, candidates, jdUploadRun, resumeUploadRun>>
    /\ reportData' = <<>>
    /\ UNCHANGED <<matchVars, parseVars, batchVars, experienceVars, contactVars, skillsVars,
                   qualifyVars, getTextVars, indexVars, retryVars, resumeUploadVars>>

\* handleParse after getUser and the history insert: the workbook is written and the
\* lists are cleared, unless there is no user or XLSX.writeFile throws
HandleParseFinish ==
    /\ parseRun # None
    /\ LET run == parseRun[1] IN
        \E user \in BOOLEAN : \E written \in BOOLEAN :
          IF user /\ written
          THEN /\ reportData' = ReportData(run.jobDescriptions, run.candidates)
               /\ jobDescriptions' = <<>>
               /\ candidates' = <<>>
          ELSE /\ reportData' = <<>>
               /\ UNCHANGED <<jobDescriptions, candidates>>
    /\ isProcessing' = FALSE
    /\ parseRun' = None
    /\ UNCHANGED <<jdUploadRun, resumeUploadRun>>
    /\ UNCHANGED <<matchVars, parseVars, batchVars, experienceVars, contactVars, skillsVars,
                   qualifyVars, getTextVars, indexVars, retryVars, resumeUploadVars>>

NextSession ==
    \/ HandleJDUploadStart
    \/ HandleJDUploadFinish
    \/ HandleResumeUploadStart
    \/ HandleResumeUploadFinish
    \/ HandleParseStart
    \/ HandleParseFinish

SpecSession == InitSession /\ [][NextSession]_vars

(***************************************************************************)
(* parseDocument (DocumentParser) and the oracle call parseWithGemini.     *)
(* Names, titles and skills are character sequences; e-mail addresses,     *)
(* phone numbers, years and education lines are opaque strings, '' empty.  *)
(***************************************************************************)

f_resume_asha_pdf  == <<"r","e","s","u","m","e","_","a","s","h","a",".","p","d","f">>
f_jd_backend_docx  == <<"J","D"," ","-"," ","B","a","c","k","e","n","d",".","d","o","c","x">>
f_scan             == <<"s","c","a","n">>
n_Asha_Rao         == <<"A","s","h","a"," ","R","a","o">>
n_Asha_R           == <<"A","s","h","a"," ","R">>
n_Work_History     == <<"W","o","r","k"," ","H","i","s","t","o","r","y">>
t_Backend_Engineer == <<"B","a","c","k","e","n","d"," ","E","n","g","i","n","e","e","r">>
t_Senior_Developer == <<"S","e","n","i","o","r"," ","D","e","v","e","l","o","p","e","r">>
s_Java             == <<"J","a","v","a">>
s_SQL              == <<"S","Q","L">>
r_build_apis       == <<"b","u","i","l","d"," ","a","p","i","s">>

LowerLetters == <<"a","b","c","d","e","f","g","h","i","j","k","l","m","n","o","p","q","r","s","t","u","v","w","x","y","z">>
UpperLetters == <<"A","B","C","D","E","F","G","H","I","J","K","L","M","N","O","P","Q","R","S","T","U","V","W","X","Y","Z">>
Digits == {"0", "1", "2", "3", "4", "5", "6", "7", "8", "9"}

\* one character of String.prototype.toUpperCase
UpperChar(c) ==
    IF \E i \in 1..26 : LowerLetters[i] = c
    THEN UpperLetters[CHOOSE i \in 1..26 : LowerLetters[i] = c]
    ELSE c

\* the regular-expression class \w
IsWordChar(c) ==
    \/ \E i \in 1..26 : LowerLetters[i] = c \/ UpperLetters[i] = c
    \/ c \in Digits
    \/ c = "_"

\* s.replace(/\.[^/.]+$/, ''): the last dot and what follows it, when that is
\* at least one character and holds no slash
StripExtension(s) ==
    LET dots == { i \in 1..(Len(s) - 1) :
                    /\ s[i] = "."
                    /\ \A k \in (i + 1)..Len(s) : s[k] \notin {"/", "."} }
    IN  IF dots = {} THEN s ELSE SubSeq(s, 1, (CHOOSE i \in dots : TRUE) - 1)

\* s.replace(/[_-]/g, ' ')
ReplaceSeparators(s) ==
    [i \in 1..Len(s) |-> IF s[i] \in {"_", "-"} THEN " " ELSE s[i]]

\* s.replace(/^(?:a|b|..)\s*/i, ''): the first alternative that starts s, and
\* the white space after it
StripLeading(s, alternatives) ==
    LET hits == { k \in 1..Len(alternatives) : StartsWith(ToLowerCase(s), alternatives[k]) }
    IN  IF hits = {} THEN s
        ELSE LET k == CHOOSE h \in hits : \A g \in hits : h <= g
             IN  TrimStart(SubSeq(s, Len(alternatives[k]) + 1, Len(s)))

\* s.replace(/\b\w/g, c => c.toUpperCase())
CapitalizeWords(s) ==
    [i \in 1..Len(s) |->
        IF IsWordChar(s[i]) /\ (i = 1 \/ ~IsWordChar(s[i - 1]))
        THEN UpperChar(s[i]) ELSE s[i]]

extractNameFromFilename(fileName) ==
    CapitalizeWords(
        StripLeading(ReplaceSeparators(StripExtension(fileName)),
                     <<<<"c","v">>, <<"r","e","s","u","m","e">>, <<"c","v","_">>, <<"r","e","s","u","m","e","_">>>>))

extractTitleFromFilename(fileName) ==
    CapitalizeWords(
        StripLeading(ReplaceSeparators(StripExtension(fileName)),
                     <<<<"j","d">>, <<"j","o","b">>, <<"j","o","b","_","d","e","s","c","r","i","p","t","i","o","n">>, <<"j","d","_">>>>))

\* cleanTitle.replace(/^JD\s*-\s*/i, '')
StripJDPrefix(title) ==
    IF StartsWith(ToLowerCase(title), <<"j", "d">>)
    THEN LET rest == TrimStart(SubSeq(title, 3, Len(title)))
         IN  IF rest # <<>> /\ Head(rest) = "-" THEN TrimStart(Tail(rest)) ELSE title
    ELSE title

\* [...new Set(list)]: the first occurrence of every string, in order
RECURSIVE Dedup(_, _)
Dedup(list, seen) ==
    IF list = <<>> THEN seen
    ELSE Dedup(Tail(list), IF ListIncludes(seen, Head(list)) THEN seen ELSE Append(seen, Head(list)))

\* ---- what the extractors find in a text ----
\* kind: "empty" is '', "blank" is white space only, "content" is anything else
Text(kind, emails, phones, name, contact, experiencePattern, skills, aggressiveSkills, education) ==
    [kind |-> kind, emails |-> emails, phones |-> phones, name |-> name, contact |-> contact,
     experiencePattern |-> experiencePattern, skills |-> skills,
     aggressiveSkills |-> aggressiveSkills, education |-> education]

NoContact == [email |-> "", phone |-> ""]

\* no extractor finds anything in '' or in white space
EmptyText == Text("empty", <<>>, <<>>, <<>>, NoContact, "", <<>>, <<>>, "")
BlankText == Text("blank", <<>>, <<>>, <<>>, NoContact, "", <<>>, <<>>, "")

\* extractSkillsFromText in base mode and in aggressive mode (which adds to base mode)
SkillFindings ==
    { <<<<>>, <<>>>>, <<<<>>, <<s_SQL>>>>, <<<<s_Java>>, <<s_Java, s_SQL>>>> }

\* texts of resumes: every combination of what the extractors can find
ResumeTexts ==
    { Text("content", emails, phones, name, [email |-> contactEmail, phone |-> ""],
           experiencePattern, found[1], found[2], education) :
        emails \in {<<>>, <<"asha@corp.test">>},
        phones \in {<<>>, <<"+919876543210">>},
        name \in {<<>>, n_Asha_Rao},
        contactEmail \in {"", "a.rao@corp.test"},
        experiencePattern \in {"", "5"},
        found \in SkillFindings,
        education \in {"", "B.Tech Computer Science"} }

\* texts of job descriptions: the contact and name extractors are not run on them
JDTexts ==
    { Text("content", <<>>, <<>>, <<>>, NoContact, experiencePattern, found[1], found[2], "") :
        experiencePattern \in {"", "5"},
        found \in SkillFindings }

\* the File argument: decodes says whether getTextFromFile returns its text
\* always, never (unsupported type, corrupt content), or on some calls only
FileUniverse(type) ==
    LET named == IF type = "resume" THEN f_resume_asha_pdf ELSE f_jd_backend_docx
        texts == (IF type = "resume" THEN ResumeTexts ELSE JDTexts) \cup {EmptyText, BlankText}
    IN  { [name |-> named, decodes |-> d, text |-> t] : d \in {"always", "sometimes"}, t \in texts }
        \cup { [name |-> n, decodes |-> "never", text |-> EmptyText] : n \in {named, f_scan} }

\* getTextFromFile(file): the outcomes of one call, None for a rejection
GetTextOutcomes(file) ==
    CASE file.decodes = "always" -> {<<file.text>>}
      [] file.decodes = "never" -> {None}
      [] OTHER -> {None, <<file.text>>}

\* ---- parseWithGemini ----
\* the record parseWithGemini returns, with the keys of both document types; a key
\* the record lacks reads as undefined, written here as the empty value
Parsed(title, titleIsString, name, email, phone, skills, experience, education, responsibilities) ==
    [title |-> title, titleIsString |-> titleIsString, name |-> name, email |-> email,
     phone |-> phone, skills |-> skills, experience |-> experience, education |-> education,
     responsibilities |-> responsibilities]

\* parsedData = null
NoParsedData == Parsed(<<>>, TRUE, <<>>, "", "", <<>>, "", "", <<>>)

\* the catch block: "Return a basic parsed document with the filename if parsing fails"
GeminiFailure(documentType, fileName) ==
    IF documentType = "resume"
    THEN Parsed(<<>>, TRUE, fileName, "", "", <<>>, "", "", <<>>)
    ELSE Parsed(fileName, TRUE, <<>>, "", "", <<>>, "", "", <<>>)

\* the reasons the try block throws
GeminiFailures == {"no_api_key", "http_error", "blocked", "no_candidates", "network"}

\* the JSON object found in the response: skills is [isArray, list]
GeminiJsonUniverse(documentType) ==
    IF documentType = "resume"
    THEN [title : {<<>>}, titleIsString : {TRUE},
          name : {<<>>, n_Asha_R},
          email : {"", "asha.r@oracle.test"},
          phone : {"", "12345"},
          skills : {[isArray |-> FALSE, list |-> <<>>], [isArray |-> TRUE, list |-> <<>>],
                    [isArray |-> TRUE, list |-> <<Str(s_java)>>],
                    [isArray |-> TRUE, list |-> <<Str(s_Java_sp), NonString, Str(s_empty)>>]},
          experience : {"", "7"},
          education : {"", "MSc"},
          responsibilities : {[isArray |-> FALSE, list |-> <<>>]}]
    ELSE [title : {<<>>, t_Backend_Engineer}, titleIsString : {TRUE}, name : {<<>>},
          email : {""}, phone : {""},
          skills : {[isArray |-> FALSE, list |-> <<>>], [isArray |-> TRUE, list |-> <<>>],
                    [isArray |-> TRUE, list |-> <<Str(s_java)>>],
                    [isArray |-> TRUE, list |-> <<Str(s_Java_sp), NonString, Str(s_empty)>>]},
          experience : {"", "7"},
          education : {""},
          responsibilities : {[isArray |-> FALSE, list |-> <<>>],
                              [isArray |-> TRUE, list |-> <<Str(r_build_apis)>>]}]
         \cup
         \* a title that is a number: truthy, and not a string
         { [title |-> <<"4", "2">>, titleIsString |-> FALSE, name |-> <<>>, email |-> "",
            phone |-> "", skills |-> [isArray |-> TRUE, list |-> <<Str(s_java)>>],
            experience |-> "7", education |-> "",
            responsibilities |-> [isArray |-> FALSE, list |-> <<>>]] }

\* what parseWithGemini's own searches find in the document text
GeminiTextFindings(documentType) ==
    IF documentType = "resume"
    THEN [nameMatch : {<<>>, n_Work_History}, titleMatch : {<<>>},
          emailMatch : {"", "hr@corp.test"},
          commonSkills : {<<>>, <<Str(s_SQL)>>},
          experienceYears : {"", "3"}]
    ELSE [nameMatch : {<<>>}, titleMatch : {<<>>, t_Senior_Developer},
          emailMatch : {""},
          commonSkills : {<<>>, <<Str(s_SQL)>>},
          experienceYears : {""}]

\* the try block when the response holds a JSON object
GeminiJson(documentType, parsedJson, found, fileName) ==
    LET skills == IF parsedJson.skills.isArray THEN parsedJson.skills.list ELSE found.commonSkills
    IN  IF documentType = "resume"
        THEN LET name == IF parsedJson.name # <<>> THEN parsedJson.name
                         ELSE extractNameFromFilename(fileName)
                 email == parsedJson.email
                 experience == IF parsedJson.experience # "" THEN parsedJson.experience
                               ELSE found.experienceYears
             IN  Parsed(<<>>, TRUE,
                        IF (name = <<>> \/ name = fileName) /\ found.nameMatch # <<>>
                        THEN found.nameMatch ELSE name,
                        IF email = "" /\ found.emailMatch # "" THEN found.emailMatch ELSE email,
                        parsedJson.phone, skills, experience, parsedJson.education, <<>>)
        ELSE LET title == IF parsedJson.title # <<>> THEN parsedJson.title
                          ELSE extractTitleFromFilename(fileName)
                 retitle == (title = <<>> \/ title = fileName) /\ found.titleMatch # <<>>
             IN  Parsed(IF retitle THEN found.titleMatch ELSE title,
                        retitle \/ parsedJson.titleIsString,
                        <<>>, "", "", skills, parsedJson.experience, "",
                        IF parsedJson.responsibilities.isArray
                        THEN parsedJson.responsibilities.list ELSE <<>>)

\* what createStructuredResponse's searches find in a response without JSON
StructuredFindings(documentType) ==
    IF documentType = "resume"
    THEN [name : {<<>>, n_Asha_R}, title : {<<>>}, email : {"", "asha.r@oracle.test"},
          phone : {"", "12345"}, skills : {<<>>, <<Str(s_java)>>},
          experience : {"", "7"}, education : {"", "MSc"}, responsibilities : {<<>>}]
    ELSE [name : {<<>>}, title : {<<>>, t_Backend_Engineer}, email : {""}, phone : {""},
          skills : {<<>>, <<Str(s_java)>>}, experience : {"", "7"}, education : {""},
          responsibilities : {<<>>, <<Str(r_build_apis)>>}]

createStructuredResponse(documentType, found, fileName) ==
    IF documentType = "resume"
    THEN Parsed(<<>>, TRUE,
                IF found.name # <<>> THEN found.name ELSE extractNameFromFilename(fileName),
                found.email, found.phone, found.skills, found.experience, found.education, <<>>)
    ELSE LET fileNameTitle == extractTitleFromFilename(fileName)
             title == IF found.title # <<>> THEN found.title ELSE fileNameTitle
         IN  Parsed(IF title # <<>> THEN title ELSE fileName, TRUE, <<>>, "", "",
                    found.skills, found.experience, "", found.responsibilities)

\* everything one call of parseWithGemini can return, with how the call went
ParseWithGeminiOutcomes(documentType, fileName) ==
    { [how |-> f, data |-> GeminiFailure(documentType, fileName)] : f \in GeminiFailures }
    \cup { [how |-> "json", data |-> GeminiJson(documentType, j, t, fileName)] :
            j \in GeminiJsonUniverse(documentType), t \in GeminiTextFindings(documentType) }
    \cup { [how |-> "unstructured", data |-> createStructuredResponse(documentType, s, fileName)] :
            s \in StructuredFindings(documentType) }

\* the same, tabulated once for the calls parseDocument can make
ParseWithGeminiTable ==
    [documentType \in {"resume", "jd"} |->
        [fileName \in {StripExtension(f_resume_asha_pdf), StripExtension(f_jd_backend_docx), f_scan} |->
            ParseWithGeminiOutcomes(documentType, fileName)]]

\* ---- parseDocument ----
\* normalizeSkills on an array: the string entries that are not blank, trimmed
RECURSIVE normalizeSkills(_)
normalizeSkills(skills) ==
    IF skills = <<>> THEN <<>>
    ELSE LET skill == Head(skills)
         IN  IF IsString(skill) /\ Trim(skill.value) # <<>>
             THEN <<Trim(skill.value)>> \o normalizeSkills(Tail(skills))
             ELSE normalizeSkills(Tail(skills))

\* "Merge results - prefer enhanced extraction"
BestEmail(text) ==
    IF text.emails # <<>> THEN text.emails[1] ELSE text.contact.email

BestPhone(text) ==
    IF text.phones # <<>> THEN text.phones[1] ELSE text.contact.phone

\* extractName(text) || fileName
LocalName(text, fileName) ==
    IF text.name # <<>> THEN text.name ELSE fileName

\* a || b on strings
OrElse(a, b, empty) == IF a # empty THEN a ELSE b

\* name: parsedData?.name || name || fileName
FinalName(parsedData, text, fileName) ==
    OrElse(parsedData.name, OrElse(LocalName(text, fileName), fileName, <<>>), <<>>)

\* the oracle's address first, then the local one
FinalEmail_OracleFirst(parsedData, text) ==
    OrElse(parsedData.email, BestEmail(text), "")

\* "For email and phone, prefer local extraction, then parsed data"
FinalEmail(parsedData, text) ==
    OrElse(BestEmail(text), parsedData.email, "")

FinalPhone(parsedData, text) ==
    OrElse(BestPhone(text), parsedData.phone, "")

\* "Determine the best skills to use", the same in both branches
FinalSkills(parsedData, text) ==
    LET normalizedParsedSkills == normalizeSkills(parsedData.skills)
        merged == IF normalizedParsedSkills # <<>>
                  THEN Dedup(normalizedParsedSkills \o text.skills, <<>>)
                  ELSE text.skills
    IN  IF merged = <<>> THEN text.aggressiveSkills ELSE merged

\* the record built after the oracle call; the text has content
MainResult(type, fileName, text, parsedData) ==
    IF type = "resume"
    THEN [title |-> OrElse(parsedData.title, fileName, <<>>),
          name |-> FinalName(parsedData, text, fileName),
          email |-> FinalEmail(parsedData, text),
          phone |-> FinalPhone(parsedData, text),
          skills |-> FinalSkills(parsedData, text),
          experience |-> OrElse(parsedData.experience, text.experiencePattern, ""),
          education |-> OrElse(parsedData.education, text.education, ""),
          responsibilities |-> normalizeSkills(parsedData.responsibilities)]
    ELSE [title |-> StripJDPrefix(OrElse(parsedData.title, fileName, <<>>)),
          skills |-> FinalSkills(parsedData, text),
          experience |-> OrElse(parsedData.experience, text.experiencePattern, ""),
          responsibilities |-> normalizeSkills(parsedData.responsibilities)]

\* cleanTitle.replace on a title that is not a string
MainThrows(type, parsedData) ==
    type = "jd" /\ parsedData.title # <<>> /\ ~parsedData.titleIsString

\* the catch block without its inner try: a failed second read is not caught
FallbackRead_Unguarded(outcome) == outcome

\* the catch block's inner try: text stays '' when getTextFromFile rejects again
FallbackRead(outcome) ==
    IF outcome = None THEN <<EmptyText>> ELSE outcome

\* the record the catch block returns
FallbackResult(type, fileName, text) ==
    LET localSkills == IF text.kind # "empty" THEN text.aggressiveSkills ELSE <<>>
        localEmails == IF text.kind # "empty" /\ type = "resume" THEN text.emails ELSE <<>>
        localPhones == IF text.kind # "empty" /\ type = "resume" THEN text.phones ELSE <<>>
    IN  IF type = "resume"
        THEN [title |-> fileName, name |-> fileName,
              email |-> IF localEmails # <<>> THEN localEmails[1] ELSE "",
              phone |-> IF localPhones # <<>> THEN localPhones[1] ELSE "",
              skills |-> localSkills, experience |-> "", education |-> "",
              responsibilities |-> <<>>]
        ELSE [title |-> fileName, skills |-> localSkills, experience |-> "",
              responsibilities |-> <<>>]

InitParse ==
    /\ pdType \in {"resume", "jd"}
    /\ pdFile \in FileUniverse(pdType)
    /\ pdPc = "start"
    /\ pdOracle = ""
    /\ pdParsedData = None
    /\ pdFallbackText = None
    /\ pdResult = None
    /\ MatchIdle
    /\ SessionIdle
    /\ BatchIdle
    /\ ExperienceIdle
    /\ ContactIdle
    /\ SkillsIdle
    /\ QualifyIdle
    /\ GetTextIdle
    /\ IndexIdle
    /\ RetryIdle
    /\ ResumeUploadIdle

\* the first getTextFromFile and the "No text content" check
PD_ReadText ==
    /\ pdPc = "start"
    /\ \E outcome \in GetTextOutcomes(pdFile) :
        pdPc' = IF outcome = None \/ outcome[1].kind # "content" THEN "catch" ELSE "oracle"
    /\ UNCHANGED <<pdFile, pdType, pdOracle, pdParsedData, pdFallbackText, pdResult>>
    /\ UNCHANGED <<matchVars, sessionVars, batchVars, experienceVars, contactVars, skillsVars,
                   qualifyVars, getTextVars, indexVars, retryVars, resumeUploadVars>>

\* local extraction, the oracle call and the final record
PD_Oracle ==
    /\ pdPc = "oracle"
    /\ LET fileName == StripExtension(pdFile.name)
       IN  \E o \in ParseWithGeminiTable[pdType][fileName] :
            /\ pdOracle' = o.how
            /\ pdParsedData' = <<o.data>>
            /\ IF MainThrows(pdType, o.data)
               THEN pdPc' = "catch" /\ pdResult' = None
               ELSE /\ pdPc' = "resolved"
                    /\ pdResult' = <<MainResult(pdType, fileName, pdFile.text, o.data)>>
    /\ UNCHANGED <<pdFile, pdType, pdFallbackText>>
    /\ UNCHANGED <<matchVars, sessionVars, batchVars, experienceVars, contactVars, skillsVars,
                   qualifyVars, getTextVars, indexVars, retryVars, resumeUploadVars>>

\* the catch block: a second getTextFromFile and the minimal record
PD_Catch ==
    /\ pdPc = "catch"
    /\ \E outcome \in GetTextOutcomes(pdFile) :
        LET text == FallbackRead(outcome)
        IN  IF text = None
            THEN pdPc' = "rejected" /\ UNCHANGED <<pdFallbackText, pdResult>>
            ELSE /\ pdPc' = "resolved"
                 /\ pdFallbackText' = text
                 /\ pdResult' = <<FallbackResult(pdType, StripExtension(pdFile.name), text[1])>>
    /\ UNCHANGED <<pdFile, pdType, pdOracle, pdParsedData>>
    /\ UNCHANGED <<matchVars, sessionVars, batchVars, experienceVars, contactVars, skillsVars,
                   qualifyVars, getTextVars, indexVars, retryVars, resumeUploadVars>>

NextParse ==
    \/ PD_ReadText
    \/ PD_Oracle
    \/ PD_Catch

SpecParse == InitParse /\ [][NextParse]_vars

(***************************************************************************)
(* processBatch (DocumentParser)                                           *)
(***************************************************************************)

BATCH_SIZE == 5

\* the largest files.length explored
MaxBatchFiles == 6

Min(a, b) == IF a <= b THEN a ELSE b

\* files.slice(i, i + BATCH_SIZE), started all at once
Batch_Unbounded(i, n) == (i + 1)..n

\* files.slice(i, i + BATCH_SIZE)
Batch(i, n) == (i + 1)..Min(i + BATCH_SIZE, n)

\* the calls that have been started and have not settled
InFlightCalls == { k \in 1..pbFiles : pbCalls[k] = "inflight" }

\* batchResults.forEach: the fulfilled results of files from..to, in index order
RECURSIVE Fulfilled(_, _, _)
Fulfilled(calls, from, to) ==
    IF from > to THEN <<>>
    ELSE (IF calls[from] = "fulfilled" THEN <<from>> ELSE <<>>) \o Fulfilled(calls, from + 1, to)

\* the files from..to in index order
RECURSIVE InOrder(_, _)
InOrder(from, to) == IF from > to THEN <<>> ELSE <<from>> \o InOrder(from + 1, to)

InitBatch ==
    /\ pbFiles \in 0..MaxBatchFiles
    /\ pbCalls = [k \in 1..pbFiles |-> "queued"]
    /\ pbStarted = <<>>
    /\ pbI = 0
    /\ pbPc = "loop"
    /\ pbResults = <<>>
    /\ pbProgress = <<>>
    /\ MatchIdle
    /\ SessionIdle
    /\ ParseIdle
    /\ ExperienceIdle
    /\ ContactIdle
    /\ SkillsIdle
    /\ QualifyIdle
    /\ GetTextIdle
    /\ IndexIdle
    /\ RetryIdle
    /\ ResumeUploadIdle

\* the loop test fails: return results
PB_Return ==
    /\ pbPc = "loop"
    /\ ~(pbI < pbFiles)
    /\ pbPc' = "returned"
    /\ UNCHANGED <<pbFiles, pbCalls, pbStarted, pbI, pbResults, pbProgress>>
    /\ UNCHANGED <<matchVars, sessionVars, parseVars, experienceVars, contactVars, skillsVars,
                   qualifyVars, getTextVars, indexVars, retryVars, resumeUploadVars>>

\* batch.map(file => parseDocument(file, type)), up to await Promise.allSettled
PB_StartBatch ==
    /\ pbPc = "loop"
    /\ pbI < pbFiles
    /\ LET batch == Batch(pbI, pbFiles)
       IN  /\ pbCalls' = [k \in 1..pbFiles |-> IF k \in batch THEN "inflight" ELSE pbCalls[k]]
           /\ pbStarted' = pbStarted \o SelectSeq(InOrder(1, pbFiles), LAMBDA k : k \in batch)
    /\ pbPc' = "await"
    /\ UNCHANGED <<pbFiles, pbI, pbResults, pbProgress>>
    /\ UNCHANGED <<matchVars, sessionVars, parseVars, experienceVars, contactVars, skillsVars,
                   qualifyVars, getTextVars, indexVars, retryVars, resumeUploadVars>>

\* one parseDocument call settles, fulfilled with a record or rejected
PB_Settle ==
    /\ \E k \in InFlightCalls, outcome \in {"fulfilled", "rejected"} :
        pbCalls' = [pbCalls EXCEPT ![k] = outcome]
    /\ UNCHANGED <<pbFiles, pbStarted, pbI, pbPc, pbResults, pbProgress>>
    /\ UNCHANGED <<matchVars, sessionVars, parseVars, experienceVars, contactVars, skillsVars,
                   qualifyVars, getTextVars, indexVars, retryVars, resumeUploadVars>>

\* Promise.allSettled resolves: push the fulfilled values, report progress, and
\* either wait a second before the next sub-batch or go round the loop
PB_CollectBatch ==
    /\ pbPc = "await"
    /\ InFlightCalls = {}
    /\ LET last == Min(pbI + BATCH_SIZE, pbFiles)
       IN  /\ pbResults' = pbResults \o Fulfilled(pbCalls, pbI + 1, last)
           /\ pbProgress' = <<Min(last * 100, 100 * pbFiles), pbFiles>>
    /\ IF pbI + BATCH_SIZE < pbFiles
       THEN pbPc' = "delay" /\ pbI' = pbI
       ELSE pbPc' = "loop" /\ pbI' = pbI + BATCH_SIZE
    /\ UNCHANGED <<pbFiles, pbCalls, pbStarted>>
    /\ UNCHANGED <<matchVars, sessionVars, parseVars, experienceVars, contactVars, skillsVars,
                   qualifyVars, getTextVars, indexVars, retryVars, resumeUploadVars>>

\* the one-second timer fires
PB_DelayDone ==
    /\ pbPc = "delay"
    /\ pbPc' = "loop"
    /\ pbI' = pbI + BATCH_SIZE
    /\ UNCHANGED <<pbFiles, pbCalls, pbStarted, pbResults, pbProgress>>
    /\ UNCHANGED <<matchVars, sessionVars, parseVars, experienceVars, contactVars, skillsVars,
                   qualifyVars, getTextVars, indexVars, retryVars, resumeUploadVars>>

NextBatch ==
    \/ PB_Return
    \/ PB_StartBatch
    \/ PB_Settle
    \/ PB_CollectBatch
    \/ PB_DelayDone

SpecBatch == InitBatch /\ [][NextBatch]_vars

(***************************************************************************)
(* extractExperienceYears and calculateExperienceFromWorkHistory           *)
(* (geminiParser).  Dates are [y, m, d] with m from 0 as in Date; the      *)
(* clock is read to the day, in a time zone without clock changes.  The    *)
(* texts use the hyphen of the dash class [-–—] and no month names, so the *)
(* two month-name patterns match at most a bare present/current/now, for   *)
(* which match[1] is undefined and the entry is skipped by the catch.      *)
(***************************************************************************)

\* the largest number of date ranges in a work history
MaxRanges == 2

\* a date range as written, with the dates it stands for: MM/YYYY is the first of
\* the month, YYYY is 1 January as a start and 31 December as an end
RangeUniverse ==
    { [written |-> <<"0","1","/","2","0","1","8"," ","-"," ","0","6","/","2","0","2","0">>,
       from |-> [y |-> 2018, m |-> 0, d |-> 1], to |-> [present |-> FALSE, y |-> 2020, m |-> 5, d |-> 1]],
      [written |-> <<"0","7","/","2","0","2","0"," ","-"," ","P","r","e","s","e","n","t">>,
       from |-> [y |-> 2020, m |-> 6, d |-> 1], to |-> [present |-> TRUE, y |-> 0, m |-> 0, d |-> 0]],
      [written |-> <<"0","7","/","2","0","2","0"," ","-"," ","0","3","/","2","0","2","1">>,
       from |-> [y |-> 2020, m |-> 6, d |-> 1], to |-> [present |-> FALSE, y |-> 2021, m |-> 2, d |-> 1]],
      [written |-> <<"0","3","/","2","0","1","9"," ","-"," ","0","2","/","2","0","2","0">>,
       from |-> [y |-> 2019, m |-> 2, d |-> 1], to |-> [present |-> FALSE, y |-> 2020, m |-> 1, d |-> 1]],
      [written |-> <<"0","1","/","2","0","1","5"," ","-"," ","1","2","/","2","0","1","6">>,
       from |-> [y |-> 2015, m |-> 0, d |-> 1], to |-> [present |-> FALSE, y |-> 2016, m |-> 11, d |-> 1]],
      [written |-> <<"2","0","1","5"," ","-"," ","2","0","1","7">>,
       from |-> [y |-> 2015, m |-> 0, d |-> 1], to |-> [present |-> FALSE, y |-> 2017, m |-> 11, d |-> 31]],
      [written |-> <<"2","0","2","0"," ","-"," ","2","0","2","2">>,
       from |-> [y |-> 2020, m |-> 0, d |-> 1], to |-> [present |-> FALSE, y |-> 2022, m |-> 11, d |-> 31]],
      [written |-> <<"1","9","9","8"," ","-"," ","2","0","0","4">>,
       from |-> [y |-> 1998, m |-> 0, d |-> 1], to |-> [present |-> FALSE, y |-> 2004, m |-> 11, d |-> 31]],
      [written |-> <<"0","5","/","2","0","2","1"," ","-"," ","0","2","/","2","0","2","1">>,
       from |-> [y |-> 2021, m |-> 4, d |-> 1], to |-> [present |-> FALSE, y |-> 2021, m |-> 1, d |-> 1]] }

\* the days new Date() can fall on
TodayUniverse == { [y |-> 2026, m |-> 10, d |-> 2], [y |-> 2027, m |-> 0, d |-> 15] }

\* the work history: the ranges as written, joined by ", "
RECURSIVE Render(_)
Render(ranges) ==
    IF ranges = <<>> THEN <<>>
    ELSE IF Len(ranges) = 1 THEN ranges[1].written
    ELSE ranges[1].written \o <<",", " ">> \o Render(Tail(ranges))

IsDigit(c) == c \in Digits

\* the character at p, "" outside the string
At(s, p) == IF p >= 1 /\ p <= Len(s) THEN s[p] ELSE ""

\* \b at the gap before position p
WordBoundary(s, p) == IsWordChar(At(s, p - 1)) # IsWordChar(At(s, p))

\* \s* from p: the position of the first character that is not a space
RECURSIVE SkipSpaces(_, _)
SkipSpaces(s, p) == IF At(s, p) = " " THEN SkipSpaces(s, p + 1) ELSE p

\* the literal word w at p, whatever the case (flag i)
WordAt(s, p, w) ==
    p + Len(w) - 1 <= Len(s) /\ ToLowerCase(SubSeq(s, p, p + Len(w) - 1)) = w

\* \d{4} at p
FourDigitsAt(s, p) == \A k \in 0..3 : IsDigit(At(s, p + k))

kw_present == <<"p","r","e","s","e","n","t">>
kw_current == <<"c","u","r","r","e","n","t">>
kw_now     == <<"n","o","w">>

\* (present|current|now) at p: the length matched, 0 for none
KeywordAt(s, p) ==
    IF WordAt(s, p, kw_present) THEN 7
    ELSE IF WordAt(s, p, kw_current) THEN 7
    ELSE IF WordAt(s, p, kw_now) THEN 3
    ELSE 0

\* parseInt of a run of digits
DigitValue(c) ==
    CASE c = "0" -> 0 [] c = "1" -> 1 [] c = "2" -> 2 [] c = "3" -> 3 [] c = "4" -> 4
      [] c = "5" -> 5 [] c = "6" -> 6 [] c = "7" -> 7 [] c = "8" -> 8 [] c = "9" -> 9

RECURSIVE ParseInt(_)
ParseInt(ds) ==
    IF ds = <<>> THEN 0 ELSE 10 * ParseInt(SubSeq(ds, 1, Len(ds) - 1)) + DigitValue(ds[Len(ds)])

\* String(n) for n >= 0
DigitChar(n) == <<"0", "1", "2", "3", "4", "5", "6", "7", "8", "9">>[n + 1]

RECURSIVE NumberToString(_)
NumberToString(n) ==
    IF n < 10 THEN <<DigitChar(n)>> ELSE Append(NumberToString(n \div 10), DigitChar(n % 10))

\* \s*[-–—]\s* from p: the position after it, 0 when there is no dash
DashFrom(s, p) ==
    LET q == SkipSpaces(s, p)
    IN  IF At(s, q) = "-" THEN SkipSpaces(s, q + 1) ELSE 0

\* ---- tier 2: /\b(20\d{2})\s*[-–—]\s*(20\d{2}|present|current|now)\b/i ----
\* the match that starts at p: [ok, startYear, end] with end a year or <<>> for a keyword
YearRangeAt(s, p) ==
    LET r == DashFrom(s, p + 4)
        starts == /\ WordBoundary(s, p)
                  /\ At(s, p) = "2" /\ At(s, p + 1) = "0"
                  /\ IsDigit(At(s, p + 2)) /\ IsDigit(At(s, p + 3))
                  /\ r # 0
        year == /\ At(s, r) = "2" /\ At(s, r + 1) = "0"
                /\ IsDigit(At(s, r + 2)) /\ IsDigit(At(s, r + 3))
                /\ WordBoundary(s, r + 4)
        word == KeywordAt(s, r) # 0 /\ WordBoundary(s, r + KeywordAt(s, r))
    IN  IF starts /\ year
        THEN [ok |-> TRUE, startYear |-> ParseInt(SubSeq(s, p, p + 3)),
              end |-> <<ParseInt(SubSeq(s, r, r + 3))>>]
        ELSE IF starts /\ word
        THEN [ok |-> TRUE, startYear |-> ParseInt(SubSeq(s, p, p + 3)), end |-> <<>>]
        ELSE [ok |-> FALSE, startYear |-> 0, end |-> <<>>]

\* text.match: the leftmost match, ok FALSE when there is none
YearRangeMatch(s) ==
    LET hits == { p \in 1..Len(s) : YearRangeAt(s, p).ok }
    IN  IF hits = {} THEN [ok |-> FALSE, startYear |-> 0, end |-> <<>>]
        ELSE YearRangeAt(s, CHOOSE p \in hits : \A q \in hits : p <= q)

\* ---- tier 3: the date patterns of calculateExperienceFromWorkHistory ----
\* \d{1,2}\/\d{4} at p: the length matched, 0 for none
MonthYearAt(s, p) ==
    IF IsDigit(At(s, p)) /\ IsDigit(At(s, p + 1)) /\ At(s, p + 2) = "/" /\ FourDigitsAt(s, p + 3)
    THEN 7
    ELSE IF IsDigit(At(s, p)) /\ At(s, p + 1) = "/" /\ FourDigitsAt(s, p + 2)
    THEN 6
    ELSE 0

\* pattern 1 at p: /(\d{1,2}\/\d{4})\s*[-–—]\s*(\d{1,2}\/\d{4}|present|current|now)/gi
\* [len, startStr, endStr], len 0 for no match
MonthYearRangeAt(s, p) ==
    LET a == MonthYearAt(s, p)
        r == IF a = 0 THEN 0 ELSE DashFrom(s, p + a)
        b == IF r = 0 THEN 0
             ELSE IF MonthYearAt(s, r) # 0 THEN MonthYearAt(s, r) ELSE KeywordAt(s, r)
    IN  IF b = 0 THEN [len |-> 0, startStr |-> <<>>, endStr |-> <<>>]
        ELSE [len |-> r + b - p, startStr |-> SubSeq(s, p, p + a - 1),
              endStr |-> ToLowerCase(SubSeq(s, r, r + b - 1))]

\* pattern 2 at p: /(\d{4})\s*[-–—]\s*(\d{4}|present|current|now)/gi
YearYearRangeAt(s, p) ==
    LET r == IF FourDigitsAt(s, p) THEN DashFrom(s, p + 4) ELSE 0
        b == IF r = 0 THEN 0
             ELSE IF FourDigitsAt(s, r) THEN 4 ELSE KeywordAt(s, r)
    IN  IF b = 0 THEN [len |-> 0, startStr |-> <<>>, endStr |-> <<>>]
        ELSE [len |-> r + b - p, startStr |-> SubSeq(s, p, p + 3),
              endStr |-> ToLowerCase(SubSeq(s, r, r + b - 1))]

\* text.matchAll(pattern): the matches from left to right, none overlapping
RECURSIVE MatchAll(_, _, _)
MatchAll(s, p, pattern) ==
    IF p > Len(s) THEN <<>>
    ELSE LET hit == IF pattern = 1 THEN MonthYearRangeAt(s, p) ELSE YearYearRangeAt(s, p)
         IN  IF hit.len = 0 THEN MatchAll(s, p + 1, pattern)
             ELSE <<hit>> \o MatchAll(s, p + hit.len, pattern)

\* new Date(year, monthIndex, day) with an out-of-range month carried into the year;
\* monthIndex >= -1 here
MakeDate(year, monthIndex, day) ==
    LET months == year * 12 + monthIndex
    IN  [y |-> months \div 12, m |-> months % 12, d |-> day]

\* the index of '/' in a month/year string
SlashIndex(str) == CHOOSE k \in 1..Len(str) : str[k] = "/"

\* "Parse start date"
StartDate(startStr) ==
    IF \E k \in 1..Len(startStr) : startStr[k] = "/"
    THEN MakeDate(ParseInt(SubSeq(startStr, SlashIndex(startStr) + 1, Len(startStr))),
                  ParseInt(SubSeq(startStr, 1, SlashIndex(startStr) - 1)) - 1, 1)
    ELSE MakeDate(ParseInt(startStr), 0, 1)

\* "Parse end date"
EndDate(endStr, today) ==
    IF endStr \in {kw_present, kw_current, kw_now} THEN today
    ELSE IF \E k \in 1..Len(endStr) : endStr[k] = "/"
    THEN MakeDate(ParseInt(SubSeq(endStr, SlashIndex(endStr) + 1, Len(endStr))),
                  ParseInt(SubSeq(endStr, 1, SlashIndex(endStr) - 1)) - 1, 1)
    ELSE MakeDate(ParseInt(endStr), 11, 31)

IsLeap(y) == (y % 4 = 0 /\ y % 100 # 0) \/ y % 400 = 0

DaysBeforeMonth(y, m) ==
    <<0, 31, 59, 90, 120, 151, 181, 212, 243, 273, 304, 334>>[m + 1]
        + (IF m >= 2 /\ IsLeap(y) THEN 1 ELSE 0)

\* getTime() in days: the days from 1 January of year 0 to the date
DayNumber(date) ==
    LET y == date.y
    IN  365 * y + ((y + 3) \div 4) - ((y + 99) \div 100) + ((y + 399) \div 400)
            + DaysBeforeMonth(y, date.m) + date.d - 1

\* the periods of one pattern's matches that pass "Validate dates"
RECURSIVE PeriodsOf(_, _)
PeriodsOf(matches, today) ==
    IF matches = <<>> THEN <<>>
    ELSE LET start == StartDate(matches[1].startStr)
             end == EndDate(matches[1].endStr, today)
         IN  (IF DayNumber(start) <= DayNumber(end) THEN <<[start |-> start, end |-> end]>> ELSE <<>>)
                 \o PeriodsOf(Tail(matches), today)

\* workPeriods, in the order of the patterns
WorkPeriods(s, today) ==
    PeriodsOf(MatchAll(s, 1, 1), today) \o PeriodsOf(MatchAll(s, 1, 2), today)

\* workPeriods.sort((a, b) => a.start.getTime() - b.start.getTime()), a stable sort
RECURSIVE InsertPeriod(_, _)
InsertPeriod(sorted, period) ==
    IF sorted = <<>> THEN <<period>>
    ELSE IF DayNumber(period.start) < DayNumber(Head(sorted).start)
    THEN <<period>> \o sorted
    ELSE <<Head(sorted)>> \o InsertPeriod(Tail(sorted), period)

RECURSIVE SortPeriods(_, _)
SortPeriods(periods, sorted) ==
    IF periods = <<>> THEN sorted
    ELSE SortPeriods(Tail(periods), InsertPeriod(sorted, Head(periods)))

oneMonth == 30

\* timeDiff <= oneMonth
Mergeable(timeDiff) == timeDiff <= oneMonth

\* the merge loop from index i on, currentPeriod being the period under construction
RECURSIVE MergeLoop(_, _, _, _)
MergeLoop(periods, i, currentPeriod, mergedPeriods) ==
    IF i > Len(periods) THEN Append(mergedPeriods, currentPeriod)
    ELSE LET nextPeriod == periods[i]
             timeDiff == DayNumber(nextPeriod.start) - DayNumber(currentPeriod.end)
         IN  IF Mergeable(timeDiff)
             THEN MergeLoop(periods, i + 1,
                            [currentPeriod EXCEPT !.end =
                                IF DayNumber(nextPeriod.end) > DayNumber(currentPeriod.end)
                                THEN nextPeriod.end ELSE currentPeriod.end],
                            mergedPeriods)
             ELSE MergeLoop(periods, i + 1, nextPeriod, Append(mergedPeriods, currentPeriod))

\* the months of one period, both end months counted
MonthsOf(period) ==
    (period.end.y - period.start.y) * 12 + (period.end.m - period.start.m) + 1

RECURSIVE TotalMonths(_)
TotalMonths(periods) ==
    IF periods = <<>> THEN 0 ELSE MonthsOf(Head(periods)) + TotalMonths(Tail(periods))

calculateExperienceFromWorkHistory(s, today) ==
    LET workPeriods == SortPeriods(WorkPeriods(s, today), <<>>)
    IN  IF workPeriods = <<>> THEN <<>>
        ELSE LET mergedPeriods == MergeLoop(workPeriods, 2, workPeriods[1], <<>>)
                 totalYears == RoundDiv(TotalMonths(mergedPeriods), 12)
             IN  IF totalYears > 0 THEN NumberToString(totalYears) ELSE <<>>

\* String(endYear - startYear): the digits, with a sign when the end is the earlier
SignedToString(n) == IF n < 0 THEN <<"-">> \o NumberToString(0 - n) ELSE NumberToString(n)

extractExperienceYears(s, today) ==
    LET yearRangeMatch == YearRangeMatch(s)
    IN  IF yearRangeMatch.ok
        THEN SignedToString((IF yearRangeMatch.end = <<>> THEN today.y ELSE yearRangeMatch.end[1])
                                - yearRangeMatch.startYear)
        ELSE calculateExperienceFromWorkHistory(s, today)

InitExperience ==
    /\ exRanges \in SeqsUpTo(RangeUniverse, MaxRanges)
    /\ exText = Render(exRanges)
    /\ exToday \in TodayUniverse
    /\ exResult = None
    /\ MatchIdle
    /\ SessionIdle
    /\ ParseIdle
    /\ BatchIdle
    /\ ContactIdle
    /\ SkillsIdle
    /\ QualifyIdle
    /\ GetTextIdle
    /\ IndexIdle
    /\ RetryIdle
    /\ ResumeUploadIdle

\* one call of the estimator on the text
ExtractExperienceYears ==
    /\ exResult = None
    /\ exResult' = <<extractExperienceYears(exText, exToday)>>
    /\ UNCHANGED <<exRanges, exText, exToday>>
    /\ UNCHANGED <<matchVars, sessionVars, parseVars, batchVars, contactVars, skillsVars,
                   qualifyVars, getTextVars, indexVars, retryVars, resumeUploadVars>>

NextExperience == ExtractExperienceYears

SpecExperience == InitExperience /\ [][NextExperience]_vars

(***************************************************************************)
(* Regular expressions, as the JavaScript engine runs them: a backtracking *)
(* search that tries the alternatives of a pattern in priority order       *)
(* (a greedy quantifier takes the longest repetition first, a lazy one the *)
(* shortest).  Run returns every way a pattern can match from a position,  *)
(* best first; the engine's answer is the first of them.  A position is    *)
(* the number of characters already consumed; caps holds the spans of the  *)
(* capture groups 1..3.                                                    *)
(***************************************************************************)
Cls(S) == [k |-> "cls", cs |-> S]
Cat(rs) == [k |-> "cat", rs |-> rs]
Alt(rs) == [k |-> "alt", rs |-> rs]
\* c{min,max} for a character class c; max = -1 stands for no upper limit
Rep(c, min, max) == [k |-> "rep", cs |-> c.cs, min |-> min, max |-> max]
\* c{min,max}? : the lazy quantifier
Lazy(c, min, max) == [k |-> "lazy", cs |-> c.cs, min |-> min, max |-> max]
Opt(r) == Rep(r, 0, 1)
Star(r) == Rep(r, 0, -1)
Plus(r) == Rep(r, 1, -1)
Grp(n, r) == [k |-> "grp", n |-> n, r |-> r]
Bol == [k |-> "bol"]
Eol == [k |-> "eol"]
Wb == [k |-> "wb"]

\* a literal word; under the i flag each letter matches in both cases
Word(w, ignoreCase) ==
    Cat([i \in 1..Len(w) |-> Cls(IF ignoreCase THEN {w[i], LowerChar(w[i]), UpperChar(w[i])}
                                 ELSE {w[i]})])

LetterSet == { LowerLetters[i] : i \in 1..26 } \cup { UpperLetters[i] : i \in 1..26 }
\* \d
DigitCls == Cls(Digits)
\* \s : the white space the texts use
SpaceSet == {" ", "\n", "\t"}

NoCaps == << <<>>, <<>>, <<>> >>

RECURSIVE Run(_, _, _)
RECURSIVE RunCat(_, _, _, _)
RECURSIVE RunAlt(_, _, _, _)

\* the lists of a list of lists, one after the other
Flatten(parts) ==
    LET places == UNION { { <<i, k>> : k \in 1..Len(parts[i]) } : i \in 1..Len(parts) }
        Before(p, q) == p[1] < q[1] \/ (p[1] = q[1] /\ p[2] < q[2])
        Place(m) == CHOOSE p \in places : Cardinality({ q \in places : Before(q, p) }) = m - 1
    IN  [m \in 1..Cardinality(places) |-> parts[Place(m)[1]][Place(m)[2]]]

\* the matches of r from each of the states, in order
RunEach(r, s, states) ==
    Flatten([i \in 1..Len(states) |-> Run(r, s, states[i])])

\* r1 r2 ... rn
RunCat(rs, i, s, states) ==
    IF i > Len(rs) \/ states = <<>> THEN states
    ELSE RunCat(rs, i + 1, s, RunEach(rs[i], s, states))

\* r1 | r2 | ... | rn
RunAlt(rs, i, s, st) ==
    IF i > Len(rs) THEN <<>>
    ELSE Run(rs[i], s, st) \o RunAlt(rs, i + 1, s, st)

\* how many characters of the class follow position pos without a break
RunLength(s, pos, cs) ==
    CHOOSE n \in 0..(Len(s) - pos) :
        /\ \A j \in 1..n : s[pos + j] \in cs
        /\ n = Len(s) - pos \/ s[pos + n + 1] \notin cs

\* greedy c{min,max}: the longest repetition first, then one character fewer, ...
RunRep(cs, min, max, s, st) ==
    LET run == RunLength(s, st.pos, cs)
        most == IF max >= 0 /\ max < run THEN max ELSE run
    IN  IF most < min THEN <<>>
        ELSE [i \in 1..(most - min + 1) |-> [st EXCEPT !.pos = @ + most - i + 1]]

\* lazy c{min,max}?: the shortest repetition first, then one character more, ...
RunLazy(cs, min, max, s, st) ==
    LET run == RunLength(s, st.pos, cs)
        most == IF max >= 0 /\ max < run THEN max ELSE run
    IN  IF most < min THEN <<>>
        ELSE [i \in 1..(most - min + 1) |-> [st EXCEPT !.pos = @ + min + i - 1]]

\* the states after a group: the group's span is from where it started to
\* where each way of matching it ended
Captured(inner, n, from) ==
    [i \in 1..Len(inner) |-> [inner[i] EXCEPT !.caps[n] = <<from, inner[i].pos>>]]

Run(r, s, st) ==
    CASE r.k = "cls" ->
            IF st.pos < Len(s) /\ s[st.pos + 1] \in r.cs
            THEN <<[st EXCEPT !.pos = @ + 1]>> ELSE <<>>
      [] r.k = "cat" -> RunCat(r.rs, 1, s, <<st>>)
      [] r.k = "alt" -> RunAlt(r.rs, 1, s, st)
      [] r.k = "rep" -> RunRep(r.cs, r.min, r.max, s, st)
      [] r.k = "lazy" -> RunLazy(r.cs, r.min, r.max, s, st)
      [] r.k = "grp" -> Captured(Run(r.r, s, st), r.n, st.pos)
      [] r.k = "bol" -> IF st.pos = 0 THEN <<st>> ELSE <<>>
      [] r.k = "eol" -> IF st.pos = Len(s) THEN <<st>> ELSE <<>>
      [] r.k = "wb" -> IF WordBoundary(s, st.pos + 1) THEN <<st>> ELSE <<>>

\* the text of capture group n of a match, <<>> when the group did not take part
Capture(s, mt, n) ==
    IF mt.caps[n] = <<>> THEN <<>> ELSE SubSeq(s, mt.caps[n][1] + 1, mt.caps[n][2])

\* one match: where it starts, its first way of matching
Preferred(found, from) ==
    IF found = <<>> THEN <<>>
    ELSE <<[start |-> from, end |-> found[1].pos, caps |-> found[1].caps]>>

MatchAt(r, s, from) == Preferred(Run(r, s, [pos |-> from, caps |-> NoCaps]), from)

\* String.prototype.matchAll with a g pattern: leftmost matches, each search
\* resuming where the last match ended (one further after an empty match)
RECURSIVE MatchesFrom(_, _)
\* at[i] is the match that starts at position i - 1, if there is one; the
\* leftmost one at or after from, then those after its end (after its start
\* when it is empty)
Leftmost(at, from) == CHOOSE i \in from..Len(at) : at[i] # <<>> /\ \A j \in from..(i - 1) : at[j] = <<>>

Following(at, mt) == MatchesFrom(at, IF mt.end > mt.start THEN mt.end + 1 ELSE mt.start + 2)

MatchesFrom(at, from) ==
    IF \A i \in from..Len(at) : at[i] = <<>> THEN <<>>
    ELSE at[Leftmost(at, from)] \o Following(at, at[Leftmost(at, from)][1])

\* the matches of a /g pattern, left to right, not overlapping
RegexMatchAll(r, s) ==
    MatchesFrom([i \in 1..(Len(s) + 1) |-> MatchAt(r, s, i - 1)] \o <<>>, 1)

\* match[0]
Whole(s, mt) == SubSeq(s, mt.start + 1, mt.end)

\* match[1] || match[0]
GroupOrWhole(s, mt) ==
    IF Capture(s, mt, 1) # <<>> THEN Capture(s, mt, 1) ELSE Whole(s, mt)

\* RegExp.prototype.test without the g flag
RegexTest(r, s) == \E from \in 0..Len(s) : MatchAt(r, s, from) # <<>>

\* String.prototype.replace with a g pattern and a fixed replacement
RECURSIVE Splice(_, _, _, _, _)
Splice(s, matches, i, from, replacement) ==
    IF i > Len(matches) THEN SubSeq(s, from + 1, Len(s))
    ELSE SubSeq(s, from + 1, matches[i].start) \o replacement
         \o Splice(s, matches, i + 1, matches[i].end, replacement)

ReplaceAll(r, s, replacement) == Splice(s, RegexMatchAll(r, s), 1, 0, replacement)

\* String.prototype.replace(/\s+/g, ' ')
CollapseSpaces(s) == ReplaceAll(Plus(Cls(SpaceSet)), s, <<" ">>)

\* String.prototype.trim, for every kind of white space
RECURSIVE TrimWs(_)
TrimWs(s) ==
    IF s # <<>> /\ Head(s) \in SpaceSet THEN TrimWs(Tail(s))
    ELSE IF s # <<>> /\ s[Len(s)] \in SpaceSet THEN TrimWs(SubSeq(s, 1, Len(s) - 1))
    ELSE s

\* the position of the k-th line feed of s
NthLineFeed(s, k) ==
    CHOOSE p \in 1..Len(s) :
        s[p] = "\n" /\ Cardinality({ q \in 1..p : s[q] = "\n" }) = k

\* String.prototype.split('\n')
SplitLines(s) ==
    LET n == Cardinality({ q \in 1..Len(s) : s[q] = "\n" })
    IN  [k \in 1..(n + 1) |->
            SubSeq(s, IF k = 1 THEN 1 ELSE NthLineFeed(s, k - 1) + 1,
                      IF k = n + 1 THEN Len(s) ELSE NthLineFeed(s, k) - 1)]

(***************************************************************************)
(* Phone numbers: cleanPhone, isValidPhone and formatPhone of              *)
(* components/DocumentParser, and their copies in                          *)
(* utils/parser/contactExtractor.ts (prefixed Contact).                    *)
(***************************************************************************)
w_phone     == <<"p","h","o","n","e">>
w_mobile    == <<"m","o","b","i","l","e">>
w_cell      == <<"c","e","l","l">>
w_tel       == <<"t","e","l">>
w_telephone == <<"t","e","l","e","p","h","o","n","e">>
w_contact   == <<"c","o","n","t","a","c","t">>
w_ph        == <<"p","h">>
w_mob       == <<"m","o","b">>
w_number    == <<"n","u","m","b","e","r">>
w_call      == <<"c","a","l","l">>
w_reach     == <<"r","e","a","c","h">>

d_0123456789 == <<"0","1","2","3","4","5","6","7","8","9">>
d_1234567890 == <<"1","2","3","4","5","6","7","8","9","0">>
d_9876543210 == <<"9","8","7","6","5","4","3","2","1","0">>
d_1111111111 == <<"1","1","1","1","1","1","1","1","1","1">>
d_0000000000 == <<"0","0","0","0","0","0","0","0","0","0">>

\* the characters of s that belong to S, in order
Keep(s, S) == SelectSeq(s, LAMBDA c : c \in S)

\* (phone.match(/\+/g) || []).length
CountOf(s, c) == Len(Keep(s, {c}))

\* /^(\d)\1+$/.test(digits)
AllSameDigit(digits) ==
    /\ Len(digits) >= 2
    /\ digits[1] \in Digits
    /\ \A i \in 1..Len(digits) : digits[i] = digits[1]

\* /^[6-9]/.test(digits)
StartsSixToNine(digits) == digits # <<>> /\ digits[1] \in {"6", "7", "8", "9"}

\* a validator that looks only at the first character and the '+' signs
isValidPhone_Lenient(phone, digits) ==
    /\ phone # <<>> /\ phone[1] \in Digits \cup {"+"}
    /\ CountOf(phone, "+") <= 1

\* isValidPhone, components/DocumentParser
isValidPhone(phone, digits) ==
    /\ phone # <<>> /\ phone[1] \in Digits \cup {"+"}
    /\ CountOf(phone, "+") <= 1
    /\ ~AllSameDigit(digits)
    /\ digits \notin {d_0123456789, d_1234567890, d_9876543210}
    /\ (StartsWith(digits, <<"9","1">>) /\ Len(digits) = 12) => StartsSixToNine(SubSeq(digits, 3, 12))
    /\ Len(digits) = 10 => StartsSixToNine(digits)

\* a formatter for which a number written without '+' has no rendering
formatPhone_PlusOnly(phone, digits) ==
    IF StartsWith(phone, <<"+">>) THEN phone ELSE <<>>

\* formatPhone, components/DocumentParser
formatPhone(phone, digits) ==
    IF StartsWith(phone, <<"+">>) THEN phone
    ELSE IF Len(digits) = 10 /\ StartsSixToNine(digits) THEN <<"+","9","1">> \o digits
    ELSE IF Len(digits) = 12 /\ StartsWith(digits, <<"9","1">>) THEN <<"+">> \o digits
    ELSE IF Len(digits) = 11 /\ StartsWith(digits, <<"1">>) THEN <<"+">> \o digits
    ELSE IF Len(digits) > 10 /\ Len(digits) <= 15 THEN <<"+">> \o digits
    ELSE <<>>

\* labels of cleanPhone, components/DocumentParser
labels == <<w_phone, w_mobile, w_cell, w_tel, w_telephone, w_contact, w_ph, w_mob, w_number>>

\* for (const label of labels) cleaned = cleaned.replace(new RegExp(label, 'gi'), '')
RECURSIVE RemoveLabels(_, _, _)
RemoveLabels(cleaned, ls, i) ==
    IF i > Len(ls) \/ cleaned = <<>> THEN cleaned
    ELSE RemoveLabels(ReplaceAll(Word(ls[i], TRUE), cleaned, <<>>), ls, i + 1)

\* .replace(/^00/, '+')
LeadingZerosToPlus(cleaned) ==
    IF StartsWith(cleaned, <<"0","0">>) THEN <<"+">> \o SubSeq(cleaned, 3, Len(cleaned))
    ELSE cleaned

\* the string cleanPhone validates: labels, separators and parentheses removed
Cleaned(phone) ==
    LET unlabelled == RemoveLabels(ToLowerCase(phone), labels, 1)
        kept == Keep(unlabelled, Digits \cup {"+", "(", ")"})
        bare == Keep(kept, Digits \cup {"+"})
    IN  LeadingZerosToPlus(bare)

\* cleanPhone, components/DocumentParser
\* "Phone must have 10-15 digits", "Additional validation", "Format the phone number"
Checked(cleaned, digits) ==
    IF Len(digits) < 10 \/ Len(digits) > 15 THEN <<>>
    ELSE IF ~isValidPhone(cleaned, digits) THEN <<>>
    ELSE formatPhone(cleaned, digits)

\* const digits = cleaned.replace(/\D/g, '')
CheckedDigits(cleaned) == Checked(cleaned, Keep(cleaned, Digits))

cleanPhone(phone) == CheckedDigits(Cleaned(phone))

\* fakeSequences
fakeSequences == {d_1234567890, d_0123456789, d_9876543210, d_1111111111, d_0000000000}

\* isValidPhone, contactExtractor.ts
ContactIsValidPhone(phone, digits) ==
    /\ phone # <<>> /\ phone[1] \in Digits \cup {"+"}
    /\ CountOf(phone, "+") <= 1
    /\ ~AllSameDigit(digits)
    /\ digits \notin fakeSequences
    /\ (StartsWith(digits, <<"9","1">>) /\ Len(digits) = 12) => StartsSixToNine(SubSeq(digits, 3, 12))
    /\ Len(digits) = 10 => StartsSixToNine(digits)
    /\ Len(digits) = 11 => StartsWith(digits, <<"1">>)

\* formatPhone, contactExtractor.ts
ContactFormatPhone(phone, digits) ==
    IF StartsWith(phone, <<"+">>) THEN phone
    ELSE IF Len(digits) = 10 /\ StartsSixToNine(digits) THEN <<"+","9","1">> \o digits
    ELSE IF Len(digits) = 12 /\ StartsWith(digits, <<"9","1">>) THEN <<"+">> \o digits
    ELSE IF Len(digits) = 11 /\ StartsWith(digits, <<"1">>) THEN <<"+">> \o digits
    ELSE IF Len(digits) > 10 /\ Len(digits) <= 15 THEN <<"+">> \o digits
    ELSE <<>>

\* labels of cleanPhone, contactExtractor.ts
ContactLabels ==
    <<w_phone, w_mobile, w_cell, w_tel, w_telephone, w_contact, w_ph, w_mob, w_number,
      w_call, w_reach>>

\* for (const label of labels) cleaned = cleaned.replace(new RegExp(`\\b${label}\\b`, 'gi'), '')
RECURSIVE ContactRemoveLabels(_, _, _)
ContactRemoveLabels(cleaned, ls, i) ==
    IF i > Len(ls) \/ cleaned = <<>> THEN cleaned
    ELSE ContactRemoveLabels(ReplaceAll(Cat(<<Wb, Word(ls[i], TRUE), Wb>>), cleaned, <<>>),
                             ls, i + 1)

\* the string cleanPhone validates: labels and everything but digits and '+' removed
ContactCleaned(phone) ==
    LET unlabelled == ContactRemoveLabels(ToLowerCase(phone), ContactLabels, 1)
        bare == Keep(unlabelled, Digits \cup {"+"})
    IN  LeadingZerosToPlus(bare)

\* cleanPhone, contactExtractor.ts
ContactChecked(cleaned, digits) ==
    IF Len(digits) < 10 \/ Len(digits) > 15 THEN <<>>
    ELSE IF ~ContactIsValidPhone(cleaned, digits) THEN <<>>
    ELSE ContactFormatPhone(cleaned, digits)

ContactCheckedDigits(cleaned) == ContactChecked(cleaned, Keep(cleaned, Digits))

ContactCleanPhone(phone) == ContactCheckedDigits(ContactCleaned(phone))

(***************************************************************************)
(* extractPhones (components/DocumentParser) and extractPhonesFromText     *)
(* (contactExtractor.ts)                                                   *)
(***************************************************************************)
\* [\s.-]
SepCls == Cls(SpaceSet \cup {".", "-"})
\* [6-9]
SixToNineCls == Cls({"6", "7", "8", "9"})
\* [+\d\s().-]
PhoneCharCls == Cls(Digits \cup SpaceSet \cup {"+", "(", ")", ".", "-"})
\* \s
SpaceCls == Cls(SpaceSet)
Lit(c) == Cls({c})

\* /\+?\d{1,3}[\s.-]?\(?\d{2,4}\)?[\s.-]?\d{3,4}[\s.-]?\d{3,4}/g
phoneInternational ==
    Cat(<<Opt(Lit("+")), Rep(DigitCls, 1, 3), Opt(SepCls), Opt(Lit("(")), Rep(DigitCls, 2, 4),
          Opt(Lit(")")), Opt(SepCls), Rep(DigitCls, 3, 4), Opt(SepCls), Rep(DigitCls, 3, 4)>>)

\* /\+91[\s.-]?[6-9]\d{9}/g
phoneIndianPrefixed ==
    Cat(<<Lit("+"), Lit("9"), Lit("1"), Opt(SepCls), SixToNineCls, Rep(DigitCls, 9, 9)>>)

\* /(?:^|[\s,;(])[6-9]\d{9}(?:[\s,;)]|$)/g
phoneIndianBare ==
    Cat(<<Alt(<<Bol, Cls(SpaceSet \cup {",", ";", "("})>>), SixToNineCls, Rep(DigitCls, 9, 9),
          Alt(<<Cls(SpaceSet \cup {",", ";", ")"}), Eol>>)>>)

\* /\(\d{3}\)[\s.-]?\d{3}[\s.-]?\d{4}/g
phoneUS ==
    Cat(<<Lit("("), Rep(DigitCls, 3, 3), Lit(")"), Opt(SepCls), Rep(DigitCls, 3, 3),
          Opt(SepCls), Rep(DigitCls, 4, 4)>>)

\* /\d{3}[\s.-]\d{3}[\s.-]\d{4}/g
phoneStandard ==
    Cat(<<Rep(DigitCls, 3, 3), SepCls, Rep(DigitCls, 3, 3), SepCls, Rep(DigitCls, 4, 4)>>)

\* /(?:phone|mobile|cell|tel|telephone|contact|ph|mob)[\s:]*([+\d\s().-]{10,20})/gi
phoneLabelled ==
    Cat(<<Alt(<<Word(w_phone, TRUE), Word(w_mobile, TRUE), Word(w_cell, TRUE), Word(w_tel, TRUE),
                Word(w_telephone, TRUE), Word(w_contact, TRUE), Word(w_ph, TRUE),
                Word(w_mob, TRUE)>>),
          Star(Cls(SpaceSet \cup {":"})),
          Grp(1, Rep(PhoneCharCls, 10, 20))>>)

\* /\+\d{1,3}[\s]?\d{5}[\s]?\d{5}/g
phoneSpaced ==
    Cat(<<Lit("+"), Rep(DigitCls, 1, 3), Opt(SpaceCls), Rep(DigitCls, 5, 5), Opt(SpaceCls),
          Rep(DigitCls, 5, 5)>>)

\* /\+\d{1,3}[\s]?\(\d{3}\)[\s]?\d{3}[\s.-]?\d{4}/g
phoneFull ==
    Cat(<<Lit("+"), Rep(DigitCls, 1, 3), Opt(SpaceCls), Lit("("), Rep(DigitCls, 3, 3), Lit(")"),
          Opt(SpaceCls), Rep(DigitCls, 3, 3), Opt(SepCls), Rep(DigitCls, 4, 4)>>)

\* /\b\d{10}\b/g
phoneCompact == Cat(<<Wb, Rep(DigitCls, 10, 10), Wb>>)

\* phonePatterns, components/DocumentParser
phonePatterns ==
    <<phoneInternational, phoneIndianPrefixed, phoneIndianBare, phoneUS, phoneStandard,
      phoneLabelled, phoneSpaced, phoneFull>>

\* phonePatterns, contactExtractor.ts
ContactPhonePatterns ==
    <<phoneInternational, phoneIndianPrefixed, phoneIndianBare, phoneUS, phoneStandard,
      phoneLabelled, phoneSpaced, phoneFull, phoneCompact>>

\* /phone|mobile|cell|tel|contact|number/i
phoneKeyword ==
    Alt(<<Word(w_phone, TRUE), Word(w_mobile, TRUE), Word(w_cell, TRUE), Word(w_tel, TRUE),
          Word(w_contact, TRUE), Word(w_number, TRUE)>>)

\* /\b(?:phone|mobile|cell|tel|contact|number|call|reach)\b/i
ContactPhoneKeyword ==
    Cat(<<Wb,
          Alt(<<Word(w_phone, TRUE), Word(w_mobile, TRUE), Word(w_cell, TRUE), Word(w_tel, TRUE),
                Word(w_contact, TRUE), Word(w_number, TRUE), Word(w_call, TRUE),
                Word(w_reach, TRUE)>>),
          Wb>>)

\* a Set keeps the first insertion of each value: Array.from(new Set(list))
FirstOccurrences(list) ==
    LET kept == SelectSeq([i \in 1..Len(list) |-> i],
                          LAMBDA i : \A j \in 1..(i - 1) : list[j] # list[i])
    IN  [k \in 1..Len(kept) |-> list[kept[k]]]

\* for (const match of cleanedText.matchAll(pattern)): (match[1] || match[0]).trim()
Candidates(s, matches) ==
    [i \in 1..Len(matches) |-> TrimWs(GroupOrWhole(s, matches[i]))]

CandidatesOfPattern(s, pattern) == Candidates(s, RegexMatchAll(pattern, s))

\* for (const pattern of phonePatterns), the candidates in the order they are met
RECURSIVE PatternLoop(_, _, _)
PatternLoop(s, patterns, p) ==
    IF p > Len(patterns) THEN <<>>
    ELSE CandidatesOfPattern(s, patterns[p]) \o PatternLoop(s, patterns, p + 1)

\* line.match(pattern): the matched sequences as they stand
Wholes(line, matches) == [i \in 1..Len(matches) |-> Whole(line, matches[i])]

SequencesOf(line, pattern) == Wholes(line, RegexMatchAll(pattern, line))

\* for (let j = i; j < Math.min(i + 3, lines.length); j++): the sequences of line j
RECURSIVE NearLines(_, _, _, _)
NearLines(sequence, lines, j, last) ==
    IF j > last THEN <<>>
    ELSE SequencesOf(lines[j], sequence) \o NearLines(sequence, lines, j + 1, last)

\* "Look for phones near keywords": the sequences in the order they are met
RECURSIVE KeywordLoop(_, _, _, _)
KeywordLoop(keyword, sequence, lines, i) ==
    IF i > Len(lines) THEN <<>>
    ELSE (IF RegexTest(keyword, ToLowerCase(lines[i]))
          THEN NearLines(sequence, lines, i, Min(i + 2, Len(lines)))
          ELSE <<>>)
         \o KeywordLoop(keyword, sequence, lines, i + 1)

\* const cleaned = cleanPhone(...); if (cleaned) phones.add(cleaned), for every
\* candidate in turn; Array.from(phones)
CleanedPhones(found) ==
    FirstOccurrences(SelectSeq([i \in 1..Len(found) |-> cleanPhone(found[i])],
                               LAMBDA cleaned : cleaned # <<>>))

\* extractPhones, components/DocumentParser
extractPhones(text) ==
    CleanedPhones(PatternLoop(CollapseSpaces(text), phonePatterns, 1)
                  \o KeywordLoop(phoneKeyword, Plus(PhoneCharCls), SplitLines(text), 1))

\* "Look in header (first 30 lines)": line.match(/\b\d{10}\b/g)
RECURSIVE HeaderLoop(_, _)
HeaderLoop(lines, i) ==
    IF i > Min(Len(lines), 30) THEN <<>>
    ELSE SequencesOf(lines[i], phoneCompact) \o HeaderLoop(lines, i + 1)

ContactCleanedPhones(found) ==
    FirstOccurrences(SelectSeq([i \in 1..Len(found) |-> ContactCleanPhone(found[i])],
                               LAMBDA cleaned : cleaned # <<>>))

\* extractPhonesFromText, contactExtractor.ts
extractPhonesFromText(text) ==
    ContactCleanedPhones(
        PatternLoop(CollapseSpaces(text), ContactPhonePatterns, 1)
        \o KeywordLoop(ContactPhoneKeyword, Rep(PhoneCharCls, 10, 20), SplitLines(text), 1)
        \o HeaderLoop(SplitLines(text), 1))

(***************************************************************************)
(* E-mail addresses: isValidEmail and extractEmails of                     *)
(* components/DocumentParser, isValidEmail and extractEmailsFromText of    *)
(* contactExtractor.ts                                                     *)
(***************************************************************************)
w_email  == <<"e","m","a","i","l">>
w_e_mail == <<"e","-","m","a","i","l">>
w_mail   == <<"m","a","i","l">>
w_id     == <<"i","d">>
w_write  == <<"w","r","i","t","e">>

p_example_com     == <<"e","x","a","m","p","l","e",".","c","o","m">>
p_test_com        == <<"t","e","s","t",".","c","o","m">>
p_email_com       == <<"e","m","a","i","l",".","c","o","m">>
p_domain_com      == <<"d","o","m","a","i","n",".","c","o","m">>
p_company_com     == <<"c","o","m","p","a","n","y",".","c","o","m">>
p_yourcompany_com == <<"y","o","u","r","c","o","m","p","a","n","y",".","c","o","m">>
p_youremail_com   == <<"y","o","u","r","e","m","a","i","l",".","c","o","m">>
p_sample_com      == <<"s","a","m","p","l","e",".","c","o","m">>

\* invalidPatterns, components/DocumentParser
invalidPatterns ==
    <<p_example_com, p_test_com, p_email_com, p_domain_com, p_company_com, p_yourcompany_com,
      p_youremail_com>>

\* invalidDomains, contactExtractor.ts
invalidDomains ==
    <<p_example_com, p_test_com, p_email_com, p_domain_com, p_company_com, p_yourcompany_com,
      p_youremail_com, p_sample_com>>

\* [A-Za-z0-9._%-]
LocalSet == LetterSet \cup Digits \cup {".", "_", "%", "-"}
\* [A-Za-z0-9]
AlnumSet == LetterSet \cup Digits
\* [A-Za-z0-9.-]
DomainSet == LetterSet \cup Digits \cup {".", "-"}

\* String.prototype.indexOf, counted from 1; 0 when absent
IndexOf(s, c) ==
    IF \E i \in 1..Len(s) : s[i] = c
    THEN CHOOSE i \in 1..Len(s) : s[i] = c /\ \A j \in 1..(i - 1) : s[j] # c
    ELSE 0

\* String.prototype.lastIndexOf, counted from 1; 0 when absent
LastIndexOf(s, c) ==
    IF \E i \in 1..Len(s) : s[i] = c
    THEN CHOOSE i \in 1..Len(s) : s[i] = c /\ \A j \in (i + 1)..Len(s) : s[j] # c
    ELSE 0

\* a validator that takes the part before the first '@' as the local part
\* without counting the '@' signs
isValidEmail_AnyAtCount(email) ==
    /\ Len(email) >= 5 /\ Len(email) <= 100
    /\ CountOf(email, "@") >= 1
    /\ LET localPart == SubSeq(email, 1, IndexOf(email, "@") - 1)
           domain == SubSeq(email, IndexOf(email, "@") + 1, Len(email))
           tld == SubSeq(domain, LastIndexOf(domain, ".") + 1, Len(domain))
       IN  /\ Len(localPart) > 0 /\ Len(localPart) <= 64
           /\ ~StartsWith(localPart, <<".">>) /\ ~EndsWith(localPart, <<".">>)
           /\ ~Includes(localPart, <<".", ".">>)
           /\ \A i \in 1..Len(localPart) : localPart[i] \in LocalSet
           /\ Len(domain) > 0 /\ Len(domain) <= 255
           /\ ~StartsWith(domain, <<".">>) /\ ~EndsWith(domain, <<".">>)
           /\ ~StartsWith(domain, <<"-">>) /\ ~EndsWith(domain, <<"-">>)
           /\ ~Includes(domain, <<".", ".">>)
           /\ Includes(domain, <<".">>)
           /\ Len(tld) >= 2
           /\ \A i \in 1..Len(email) : email[i] \notin SpaceSet
           /\ ~Includes(email, <<"@", ".">>) /\ ~Includes(email, <<".", "@">>)
           /\ \A p \in 1..Len(invalidPatterns) :
                 ~(EndsWith(email, invalidPatterns[p]) /\ Len(localPart) < 3)

\* isValidEmail, components/DocumentParser
isValidEmail(email) ==
    /\ Len(email) >= 5 /\ Len(email) <= 100
    /\ CountOf(email, "@") = 1
    /\ LET localPart == SubSeq(email, 1, IndexOf(email, "@") - 1)
           domain == SubSeq(email, IndexOf(email, "@") + 1, Len(email))
           tld == SubSeq(domain, LastIndexOf(domain, ".") + 1, Len(domain))
       IN  /\ Len(localPart) > 0 /\ Len(localPart) <= 64
           /\ ~StartsWith(localPart, <<".">>) /\ ~EndsWith(localPart, <<".">>)
           /\ ~Includes(localPart, <<".", ".">>)
           /\ \A i \in 1..Len(localPart) : localPart[i] \in LocalSet
           /\ Len(domain) > 0 /\ Len(domain) <= 255
           /\ ~StartsWith(domain, <<".">>) /\ ~EndsWith(domain, <<".">>)
           /\ ~StartsWith(domain, <<"-">>) /\ ~EndsWith(domain, <<"-">>)
           /\ ~Includes(domain, <<".", ".">>)
           /\ Includes(domain, <<".">>)
           /\ Len(tld) >= 2
           /\ \A i \in 1..Len(email) : email[i] \notin SpaceSet
           /\ ~Includes(email, <<"@", ".">>) /\ ~Includes(email, <<".", "@">>)
           /\ \A p \in 1..Len(invalidPatterns) :
                 ~(EndsWith(email, invalidPatterns[p]) /\ Len(localPart) < 3)

\* isValidEmail, contactExtractor.ts
ContactIsValidEmail(email) ==
    /\ Len(email) >= 5 /\ Len(email) <= 100
    /\ CountOf(email, "@") = 1
    /\ LET localPart == SubSeq(email, 1, IndexOf(email, "@") - 1)
           domain == SubSeq(email, IndexOf(email, "@") + 1, Len(email))
           tld == SubSeq(domain, LastIndexOf(domain, ".") + 1, Len(domain))
       IN  /\ Len(localPart) > 0 /\ Len(localPart) <= 64
           /\ ~StartsWith(localPart, <<".">>) /\ ~EndsWith(localPart, <<".">>)
           /\ ~Includes(localPart, <<".", ".">>)
           /\ \A i \in 1..Len(localPart) : localPart[i] \in LocalSet
           /\ Len(domain) > 0 /\ Len(domain) <= 255
           /\ ~StartsWith(domain, <<".">>) /\ ~EndsWith(domain, <<".">>)
           /\ ~StartsWith(domain, <<"-">>) /\ ~EndsWith(domain, <<"-">>)
           /\ ~Includes(domain, <<".", ".">>)
           /\ Includes(domain, <<".">>)
           /\ Len(tld) >= 2
           /\ \A i \in 1..Len(email) : email[i] \notin SpaceSet
           /\ ~Includes(email, <<"@", ".">>) /\ ~Includes(email, <<".", "@">>)
           /\ \A p \in 1..Len(invalidDomains) :
                 ~(EndsWith(email, invalidDomains[p]) /\ Len(localPart) < 3)

\* [A-Za-z0-9][A-Za-z0-9._%-]+@[A-Za-z0-9][A-Za-z0-9.-]+\.[A-Za-z]{2,}
emailBody ==
    Cat(<<Cls(AlnumSet), Plus(Cls(LocalSet)), Lit("@"), Cls(AlnumSet), Plus(Cls(DomainSet)),
          Lit("."), Rep(Cls(LetterSet), 2, -1)>>)

\* /\b[A-Za-z0-9][A-Za-z0-9._%-]*@[A-Za-z0-9][A-Za-z0-9.-]*\.[A-Z|a-z]{2,}\b/g
emailPattern1 ==
    Cat(<<Wb, Cls(AlnumSet), Star(Cls(LocalSet)), Lit("@"), Cls(AlnumSet), Star(Cls(DomainSet)),
          Lit("."), Rep(Cls(LetterSet \cup {"|"}), 2, -1), Wb>>)

\* /(?:email|e-mail|mail|contact|id)[\s:]*(...)/gi
emailPattern2 ==
    Cat(<<Alt(<<Word(w_email, TRUE), Word(w_e_mail, TRUE), Word(w_mail, TRUE),
                Word(w_contact, TRUE), Word(w_id, TRUE)>>),
          Star(Cls(SpaceSet \cup {":"})), Grp(1, emailBody)>>)

\* /(?:email|e-mail|mail|contact|id|e\.?mail)[\s:]*(...)/gi
emailRegex2 ==
    Cat(<<Alt(<<Word(w_email, TRUE), Word(w_e_mail, TRUE), Word(w_mail, TRUE),
                Word(w_contact, TRUE), Word(w_id, TRUE),
                Cat(<<Cls({"e", "E"}), Opt(Lit(".")), Word(w_mail, TRUE)>>)>>),
          Star(Cls(SpaceSet \cup {":"})), Grp(1, emailBody)>>)

\* /[\[\(](...)[\]\)]/g
emailPattern3 ==
    Cat(<<Cls({"[", "("}), Grp(1, emailBody), Cls({"]", ")"})>>)

\* /([A-Za-z0-9._%-]+)\s*@\s*([A-Za-z0-9.-]+)\s*\.\s*([A-Za-z]{2,})/g
emailPattern4 ==
    Cat(<<Grp(1, Plus(Cls(LocalSet))), Star(SpaceCls), Lit("@"), Star(SpaceCls),
          Grp(2, Plus(Cls(DomainSet))), Star(SpaceCls), Lit("."), Star(SpaceCls),
          Grp(3, Rep(Cls(LetterSet), 2, -1))>>)

\* /email|e-mail|mail|contact|reach/i
emailKeyword ==
    Alt(<<Word(w_email, TRUE), Word(w_e_mail, TRUE), Word(w_mail, TRUE), Word(w_contact, TRUE),
          Word(w_reach, TRUE)>>)

\* /\b(?:email|e-mail|mail|contact|reach|write)/i
ContactEmailKeyword ==
    Cat(<<Wb, Alt(<<Word(w_email, TRUE), Word(w_e_mail, TRUE), Word(w_mail, TRUE),
                    Word(w_contact, TRUE), Word(w_reach, TRUE), Word(w_write, TRUE)>>)>>)

\* the addresses a pattern finds: (match[1] || match[0]).toLowerCase().trim()
Addresses(s, matches) ==
    [i \in 1..Len(matches) |-> TrimWs(ToLowerCase(GroupOrWhole(s, matches[i])))]

AddressesOfPattern(s, pattern) == Addresses(s, RegexMatchAll(pattern, s))

\* for (const pattern of patterns), the addresses in the order they are met
RECURSIVE AddressLoop(_, _, _)
AddressLoop(s, patterns, p) ==
    IF p > Len(patterns) THEN <<>>
    ELSE AddressesOfPattern(s, patterns[p]) \o AddressLoop(s, patterns, p + 1)

\* "Handle spaced emails": `${match[1]}@${match[2]}.${match[3]}`.toLowerCase().trim()
Rejoined(s, matches) ==
    [i \in 1..Len(matches) |->
        TrimWs(ToLowerCase(Capture(s, matches[i], 1) \o <<"@">> \o Capture(s, matches[i], 2)
                           \o <<".">> \o Capture(s, matches[i], 3)))]

SpacedAddresses(s) == Rejoined(s, RegexMatchAll(emailPattern4, s))

\* for (let j = i; j < Math.min(i + 3, lines.length); j++) lines[j].matchAll(emailPattern1)
RECURSIVE EmailNearLines(_, _, _, _)
EmailNearLines(pattern, lines, j, last) ==
    IF j > last THEN <<>>
    ELSE AddressesOfPattern(lines[j], pattern) \o EmailNearLines(pattern, lines, j + 1, last)

\* "Try to find email near common keywords"
RECURSIVE EmailKeywordLoop(_, _, _)
EmailKeywordLoop(keyword, lines, i) ==
    IF i > Len(lines) THEN <<>>
    ELSE (IF RegexTest(keyword, ToLowerCase(lines[i]))
          THEN EmailNearLines(emailPattern1, lines, i, Min(i + 2, Len(lines)))
          ELSE <<>>)
         \o EmailKeywordLoop(keyword, lines, i + 1)

\* extractEmails, components/DocumentParser: if (isValidEmail(email)) emails.add(email)
\* for every address in turn; Array.from(emails)
extractEmails(text) ==
    FirstOccurrences(SelectSeq(
        AddressLoop(text, <<emailPattern1, emailPattern2, emailPattern3>>, 1)
        \o SpacedAddresses(text)
        \o EmailKeywordLoop(emailKeyword, SplitLines(text), 1),
        isValidEmail))

\* lines.slice(0, 30).join('\n')
HeaderLines(text) ==
    IF Cardinality({ q \in 1..Len(text) : text[q] = "\n" }) < 30 THEN text
    ELSE SubSeq(text, 1, NthLineFeed(text, 30) - 1)

\* extractEmailsFromText, contactExtractor.ts
\* the strategies of extractEmailsFromText, in their order
ContactAddresses(cleanedText, text) ==
    FirstOccurrences(SelectSeq(
        AddressLoop(cleanedText, <<emailPattern1, emailRegex2, emailPattern3>>, 1)
        \o SpacedAddresses(cleanedText)
        \o EmailKeywordLoop(ContactEmailKeyword, SplitLines(text), 1)
        \o AddressesOfPattern(HeaderLines(text), emailPattern1),
        ContactIsValidEmail))

extractEmailsFromText(text) == ContactAddresses(CollapseSpaces(text), text)

\* extractContactInfo, contactExtractor.ts; cleanText is
\* text.replace(/\s+/g, ' ').replace(/[^\S\r\n]+/g, ' ').trim()
\* list[0] || ''
FirstOr(list) == IF list # <<>> THEN list[1] ELSE <<>>

ContactOf(cleanText) ==
    [email |-> FirstOr(extractEmailsFromText(cleanText)),
     phone |-> FirstOr(extractPhonesFromText(cleanText))]

extractContactInfo(text) ==
    ContactOf(TrimWs(ReplaceAll(Plus(Cls(SpaceSet \ {"\n"})), CollapseSpaces(text), <<" ">>)))

(***************************************************************************)
(* The contact functions as a state machine.  They keep no state: a state  *)
(* is the argument in hand (a text for the extractors, a candidate string  *)
(* for cleanPhone and isValidEmail) and the call made last with what it    *)
(* returned.                                                               *)
(***************************************************************************)
\* texts of resumes
x_call_me == <<"C","a","l","l"," ","m","e"," ","a","t"," ","+","9","1"," ","9","8","7","6","5"," ","4","3","2","1","0"," ","o","r"," ","(","5","5","5",")"," ","1","2","3","-","4","5","6","7">>
x_london == <<"P","h","o","n","e",":"," ","0","2","0"," ","7","9","4","6"," ","0","9","5","8">>
x_header == <<"E","m","a","i","l",":"," ","A","s","h","a",".","R","a","o","@","c","o","r","p",".","t","e","s","t","\n","M","o","b","i","l","e",":"," ","+","9","1","-","9","8","7","6","5","0","1","2","3","4">>
x_reach == <<"r","e","a","c","h"," ","m","e"," ","(","j","o","@","m","y","c","o","m","p","a","n","y",".","c","o","m",")"," ","o","r"," ","a"," ","@"," ","b",".","c","o">>
x_fakes == <<"T","e","l"," ","1","2","3","4","5","6","7","8","9","0",","," ","a","l","t"," ","0","0","1","1","1","1","1","1","1","1","1","1">>
x_us == <<"+","1"," ","(","5","5","5",")"," ","1","2","3","-","4","5","6","7"," ","/"," ","1","5","5","5","1","2","3","4","5","6","7">>
x_bare == <<"9","8","7","6","5","0","1","2","3","4">>
x_placeholders == <<"C","o","n","t","a","c","t",":"," ","m","e","@","t","e","s","t",".","c","o","m",","," ","a","s","h","a","@","t","e","s","t",".","c","o","m">>
x_two_ats == <<"m","a","i","l"," ","a","@","b","@","c","o","r","p",".","t","e","s","t"," ","o","r"," ","a","s","h","a"," ","r","a","o","@","c","o","r","p",".","t","e","s","t">>

TextUniverse ==
    { <<>>, x_call_me, x_london, x_header, x_reach, x_fakes, x_us, x_bare, x_placeholders, x_two_ats }

\* digit strings a phone candidate is written from
n_indian == <<"9","8","7","6","5","0","1","2","3","4">>
n_us == <<"5","5","5","1","2","3","4","5","6","7">>
n_london == <<"0","2","0","7","9","4","6","0","9","5","8">>
n_us_1 == <<"1","5","5","5","1","2","3","4","5","6","7">>
n_91_indian == <<"9","1","9","8","7","6","5","0","1","2","3","4">>
n_91_other == <<"9","1","5","5","5","1","2","3","4","5","6","7">>
n_uk == <<"4","4","2","0","7","9","4","6","0","9","5","8">>
n_short == <<"9","8","7","6","5","0","1","2","3">>
n_long == <<"9","8","7","6","5","0","1","2","3","4","5","6","7","8","9","0">>

DigitStrings ==
    { d_1111111111, d_1234567890, d_0123456789, d_9876543210, n_indian, n_us, n_london, n_us_1,
      n_91_indian, n_91_other, n_uk, n_short, n_long }

\* what stands before the digits: nothing, '+', '00', a label
PhonePrefixes ==
    { <<>>, <<"+">>, <<"0", "0">>, <<"M","o","b","i","l","e",":"," ">>,
      <<"c","a","l","l"," ","+">> }

\* ddd-ddd-dddd...
Dashed(d) == SubSeq(d, 1, 3) \o <<"-">> \o SubSeq(d, 4, 6) \o <<"-">> \o SubSeq(d, 7, Len(d))
\* (ddd) ddd dddd...
Bracketed(d) ==
    <<"(">> \o SubSeq(d, 1, 3) \o <<")", " ">> \o SubSeq(d, 4, 6) \o <<" ">> \o SubSeq(d, 7, Len(d))

\* the candidates handed to cleanPhone
PhoneCandidates ==
    { p \o w : p \in PhonePrefixes,
               w \in UNION { {d, Dashed(d), Bracketed(d)} : d \in DigitStrings } }

\* strings handed to isValidEmail
a_ok == <<"a","s","h","a",".","r","a","o","@","c","o","r","p",".","t","e","s","t">>
a_short_local == <<"j","o","@","m","y","c","o","m","p","a","n","y",".","c","o","m">>
a_contest == <<"a","b","@","c","o","n","t","e","s","t",".","c","o","m">>
a_placeholder_short == <<"m","e","@","t","e","s","t",".","c","o","m">>
a_placeholder_long == <<"a","s","h","a","@","t","e","s","t",".","c","o","m">>
a_sample == <<"m","e","@","s","a","m","p","l","e",".","c","o","m">>
a_one_letter == <<"a","@","b",".","c","o">>
a_four == <<"a","@","b","c">>
a_space == <<"a","s","h","a"," ","r","a","o","@","c","o","r","p",".","t","e","s","t">>
a_space_domain == <<"a","s","h","a","@","c","o","r","p"," ",".","t","e","s","t">>
a_two_ats == <<"a","@","b","@","c","o","r","p",".","t","e","s","t">>
a_no_at == <<"a","s","h","a",".","c","o","r","p",".","t","e","s","t">>
a_dot_first == <<".","a","s","h","a","@","c","o","r","p",".","t","e","s","t">>
a_dots == <<"a","s",".",".","h","a","@","c","o","r","p",".","t","e","s","t">>
a_tld == <<"a","s","h","a","@","c","o","r","p",".","t">>
a_no_dot == <<"a","s","h","a","@","c","o","r","p">>
a_hyphen == <<"a","s","h","a","@","-","c","o","r","p",".","t","e","s","t">>
a_bang == <<"a","s","!","h","a","@","c","o","r","p",".","t","e","s","t">>
a_tab == <<"a","s","h","a","@","c","o","r","p",".","t","e","s","t","	">>
\* a local part of 65 characters, and an address of 101 characters
a_long_local == [i \in 1..65 |-> "a"] \o <<"@">> \o <<"c","o","r","p",".","t","e","s","t">>
a_long == <<"a","s","h","a","@">> \o [i \in 1..92 |-> "b"] \o <<".","c","o","m">>

AddressCandidates ==
    { a_ok, a_short_local, a_contest, a_placeholder_short, a_placeholder_long, a_sample, a_one_letter, a_four, a_space, a_space_domain, a_two_ats, a_no_at, a_dot_first, a_dots, a_tld, a_no_dot, a_hyphen, a_bang, a_tab,
      a_long_local, a_long }

StringCandidates == PhoneCandidates \cup AddressCandidates

\* parseDocument, "Use enhanced extraction functions" to "Merge results - prefer
\* enhanced extraction", for a resume
Merged(localEmails, localPhones, contactInfo) ==
    [localEmails |-> localEmails, localPhones |-> localPhones, contactInfo |-> contactInfo,
     bestEmail |-> IF localEmails # <<>> THEN localEmails[1] ELSE contactInfo.email,
     bestPhone |-> IF localPhones # <<>> THEN localPhones[1] ELSE contactInfo.phone]

LocalContact(text) == Merged(extractEmails(text), extractPhones(text), extractContactInfo(text))

InitContact ==
    /\ \/ ctText \in TextUniverse /\ ctCandidate = <<>>
       \/ ctText = <<>> /\ ctCandidate \in StringCandidates
    /\ ctCall = NoCall
    /\ MatchIdle
    /\ SessionIdle
    /\ ParseIdle
    /\ BatchIdle
    /\ ExperienceIdle
    /\ SkillsIdle
    /\ QualifyIdle
    /\ GetTextIdle
    /\ IndexIdle
    /\ RetryIdle
    /\ ResumeUploadIdle

\* a call of fn, which returns
Call(fn, returned) ==
    /\ ctCall = NoCall
    /\ ctCall' = [fn |-> fn, returned |-> returned]
    /\ UNCHANGED <<ctText, ctCandidate>>
    /\ UNCHANGED <<matchVars, sessionVars, parseVars, batchVars, experienceVars, skillsVars,
                   qualifyVars, getTextVars, indexVars, retryVars, resumeUploadVars>>

ExtractEmails == Call("extractEmails", extractEmails(ctText))
ExtractPhones == Call("extractPhones", extractPhones(ctText))
ExtractEmailsFromText == Call("extractEmailsFromText", extractEmailsFromText(ctText))
ExtractPhonesFromText == Call("extractPhonesFromText", extractPhonesFromText(ctText))
ExtractContactInfo == Call("extractContactInfo", extractContactInfo(ctText))
ParseDocumentContact == Call("parseDocument", LocalContact(ctText))
CleanPhone == Call("cleanPhone", cleanPhone(ctCandidate))
ContactCleanPhoneCall == Call("ContactCleanPhone", ContactCleanPhone(ctCandidate))
IsValidEmail == Call("isValidEmail", isValidEmail(ctCandidate))
ContactIsValidEmailCall == Call("ContactIsValidEmail", ContactIsValidEmail(ctCandidate))

NextContact ==
    \/ ExtractEmails
    \/ ExtractPhones
    \/ ExtractEmailsFromText
    \/ ExtractPhonesFromText
    \/ ExtractContactInfo
    \/ ParseDocumentContact
    \/ CleanPhone
    \/ ContactCleanPhoneCall
    \/ IsValidEmail
    \/ ContactIsValidEmailCall

SpecContact == InitContact /\ [][NextContact]_vars

(***************************************************************************)
(* extractSkillsFromText (components/DocumentParser).  The dictionary is   *)
(* cut down to the entries the texts can meet, kept in the order of the    *)
(* source, where Swift is listed twice.  The texts hold no bullet          *)
(* character other than '-' and '*'.                                       *)
(***************************************************************************)
k_Python == <<"P","y","t","h","o","n">>
k_Java == <<"J","a","v","a">>
k_JavaScript == <<"J","a","v","a","S","c","r","i","p","t">>
k_Go == <<"G","o">>
k_Swift == <<"S","w","i","f","t">>
k_R == <<"R">>
k_SQL == <<"S","Q","L">>
k_PostgreSQL == <<"P","o","s","t","g","r","e","S","Q","L">>
k_Docker == <<"D","o","c","k","e","r">>

\* skillKeywords
skillKeywords ==
    <<k_Python, k_Java, k_JavaScript, k_Go, k_Swift, k_R, k_SQL, k_PostgreSQL, k_Docker, k_Swift>>

v_experience == <<"e","x","p","e","r","i","e","n","c","e">>
v_knowledge == <<"k","n","o","w","l","e","d","g","e">>
v_proficient == <<"p","r","o","f","i","c","i","e","n","t">>
v_skilled == <<"s","k","i","l","l","e","d">>
v_expertise == <<"e","x","p","e","r","t","i","s","e">>
v_familiar == <<"f","a","m","i","l","i","a","r">>
v_understanding == <<"u","n","d","e","r","s","t","a","n","d","i","n","g">>
v_using == <<"u","s","i","n","g">>
v_worked == <<"w","o","r","k","e","d">>
v_in == <<"i","n">>
v_with == <<"w","i","t","h">>
v_of == <<"o","f">>
v_and == <<"a","n","d">>
v_or == <<"o","r">>
v_for == <<"f","o","r">>
v_to == <<"t","o">>
v_order == <<"o","r","d","e","r">>

\* new RegExp(`\\b${escaped skill}\\b`, 'i')
SkillRegex(skill) == Cat(<<Wb, Word(skill, TRUE), Wb>>)

\* "Method 1: Direct keyword matching"
DirectSkills(text) ==
    SelectSeq(skillKeywords, LAMBDA skill : RegexTest(SkillRegex(skill), text))

\* [A-Za-z0-9\.\+\/#\s-]+?
phrase == Lazy(Cls(LetterSet \cup Digits \cup {".", "+", "/", "#", "-"} \cup SpaceSet), 1, -1)

\* and|,|\.|;|for|to
enders ==
    <<Word(v_and, TRUE), Lit(","), Lit("."), Lit(";"), Word(v_for, TRUE), Word(v_to, TRUE)>>

\* /lead\s+(phrase)(?:\s+(?:ends))/gi
Statement(lead, ends) ==
    Cat(lead \o <<Plus(SpaceCls), Grp(1, phrase), Plus(SpaceCls), Alt(ends)>>)

\* lead\s+(?:a|b)
Then(lead, a, b) == <<Word(lead, TRUE), Plus(SpaceCls), Alt(<<Word(a, TRUE), Word(b, TRUE)>>)>>

\* lead\s+of
ThenOf(lead) == <<Word(lead, TRUE), Plus(SpaceCls), Word(v_of, TRUE)>>

\* experiencePatterns
experiencePatterns ==
    <<Statement(Then(v_experience, v_in, v_with),
                enders \o <<Cat(<<Word(v_in, TRUE), Plus(SpaceCls), Word(v_order, TRUE)>>)>>),
      Statement(ThenOf(v_knowledge), enders),
      Statement(Then(v_proficient, v_in, v_with), enders),
      Statement(Then(v_skilled, v_in, v_with), enders),
      Statement(Then(v_expertise, v_in, v_with), enders),
      Statement(Then(v_familiar, v_with, v_in), enders),
      Statement(ThenOf(v_understanding), enders),
      Statement(<<Word(v_using, TRUE)>>, enders \o <<Word(v_in, TRUE)>>),
      Statement(<<Word(v_worked, TRUE), Plus(SpaceCls), Word(v_with, TRUE)>>, enders)>>

\* /\s+(?:and|or)\s+|,\s*/
phraseSeparator ==
    Alt(<<Cat(<<Plus(SpaceCls), Alt(<<Word(v_and, FALSE), Word(v_or, FALSE)>>), Plus(SpaceCls)>>),
          Cat(<<Lit(","), Star(SpaceCls)>>)>>)

\* the pieces of s between the matches of a separator
Pieces(s, separators) ==
    [k \in 1..(Len(separators) + 1) |->
        SubSeq(s, IF k = 1 THEN 1 ELSE separators[k - 1].end + 1,
                  IF k > Len(separators) THEN Len(s) ELSE separators[k].start)]

\* s.split(separator)
Split(s, separator) == Pieces(s, RegexMatchAll(separator, s))

\* .map(s => s.trim()).filter(s => s.length > 2 && s.length < 30)
Trimmed(pieces) ==
    SelectSeq([k \in 1..Len(pieces) |-> TrimWs(pieces[k])],
              LAMBDA piece : Len(piece) > 2 /\ Len(piece) < 30)

potentialSkills(captured) == Trimmed(Split(captured, phraseSeparator))

\* "Check if this matches any known skill": the known skills a phrase adds
KnownSkillsOf(skill) ==
    SelectSeq(skillKeywords,
              LAMBDA knownSkill :
                  \/ Includes(ToLowerCase(skill), ToLowerCase(knownSkill))
                  \/ Includes(ToLowerCase(knownSkill), ToLowerCase(skill)))

\* for (const skill of potentialSkills), the known skills in the order they are added
KnownSkillsOfAll(skills) == Flatten([k \in 1..Len(skills) |-> KnownSkillsOf(skills[k])])

\* for (const match of matches) if (match[1])
SkillsOfMatches(text, matches) ==
    Flatten([k \in 1..Len(matches) |->
                IF Capture(text, matches[k], 1) # <<>>
                THEN KnownSkillsOfAll(potentialSkills(Capture(text, matches[k], 1)))
                ELSE <<>>])

\* "Method 2: Pattern-based extraction for experience/knowledge statements"
RECURSIVE StatementSkills(_, _)
StatementSkills(text, p) ==
    IF p > Len(experiencePatterns) THEN <<>>
    ELSE SkillsOfMatches(text, RegexMatchAll(experiencePatterns[p], text))
         \o StatementSkills(text, p + 1)

\* the characters of the texts, for a negated class
TextChars ==
    LetterSet \cup Digits \cup SpaceSet \cup {".", ",", ";", ":", "+", "/", "#", "-", "*"}

\* /[•\-\*]\s*([^\n•\-\*]+)/g
bulletRegex ==
    Cat(<<Cls({"-", "*"}), Star(SpaceCls), Grp(1, Plus(Cls(TextChars \ {"\n", "-", "*"})))>>)

\* the skills a bullet holds: bulletText.includes(skill.toLowerCase())
SkillsIn(bulletText) ==
    SelectSeq(skillKeywords, LAMBDA skill : Includes(bulletText, ToLowerCase(skill)))

SkillsOfBullets(text, bullets) ==
    Flatten([k \in 1..Len(bullets) |-> SkillsIn(ToLowerCase(Capture(text, bullets[k], 1)))])

\* "Method 3: Extract from bullet points"
BulletSkills(text) == SkillsOfBullets(text, RegexMatchAll(bulletRegex, text))

\* extractSkillsFromText(text, isJobDescription, aggressive): Array.from(foundSkills)
extractSkillsFromText(text, aggressive) ==
    FirstOccurrences(DirectSkills(text)
                     \o (IF aggressive THEN StatementSkills(text, 1) \o BulletSkills(text)
                         ELSE <<>>))

g_sql_java == <<"s","q","l"," ","a","n","d"," ","j","a","v","a">>
g_experience == <<"e","x","p","e","r","i","e","n","c","e"," ","w","i","t","h"," ","p","o","s","t","g","r","e","s"," ","a","n","d"," ","d","o","c","k","e","r">>
g_bullet == <<"-"," ","j","a","v","a","s","c","r","i","p","t">>
g_swift == <<"S","w","i","f","t">>
g_using == <<"u","s","i","n","g"," ","g","o","l","a","n","g"," ","f","o","r">>
g_knowledge == <<"*"," ","k","n","o","w","l","e","d","g","e"," ","o","f"," ","S","Q","L",","," ","p","y","t","h","o","n"," ","t","o">>

Fragments == {g_sql_java, g_experience, g_bullet, g_swift, g_using, g_knowledge}

\* the texts: at most two lines
SkillTexts ==
    {<<>>} \cup Fragments \cup { a \o <<"\n">> \o b : a \in Fragments, b \in Fragments }

InitSkills ==
    /\ skText \in SkillTexts
    /\ skCall = None
    /\ MatchIdle
    /\ SessionIdle
    /\ ParseIdle
    /\ BatchIdle
    /\ ExperienceIdle
    /\ ContactIdle
    /\ QualifyIdle
    /\ GetTextIdle
    /\ IndexIdle
    /\ RetryIdle
    /\ ResumeUploadIdle

\* extractSkillsFromText(text, isJobDescription) and extractSkillsFromText(text, false, true)
Extract(aggressive) ==
    /\ skCall = None
    /\ skCall' = <<[aggressive |-> aggressive, returned |-> extractSkillsFromText(skText, aggressive)]>>
    /\ UNCHANGED skText
    /\ UNCHANGED <<matchVars, sessionVars, parseVars, batchVars, experienceVars, contactVars,
                   qualifyVars, getTextVars, indexVars, retryVars, resumeUploadVars>>

ExtractSkills == Extract(FALSE)
ExtractSkillsAggressive == Extract(TRUE)

NextSkills ==
    \/ ExtractSkills
    \/ ExtractSkillsAggressive

SpecSkills == InitSkills /\ [][NextSkills]_vars

(***************************************************************************)
(* The experience verdict of a report row, at its three call sites:        *)
(* handleParse (geminiParser.ts), CandidateTable and ParsingHistory.       *)
(***************************************************************************)

\* parseInt(s): white space, a sign, then the longest run of decimal digits;
\* NaN when there is no digit (the texts hold no 0x prefix)
parseInt(s) ==
    LET p == RunLength(s, 0, SpaceSet)
        q == IF At(s, p + 1) \in {"+", "-"} THEN p + 1 ELSE p
        n == RunLength(s, q, Digits)
    IN  IF n = 0 THEN NaN
        ELSE Num((IF At(s, p + 1) = "-" THEN -1 ELSE 1) * ParseInt(SubSeq(s, q + 1, q + n)))

\* x || 0 for a number x
OrZero(x) == IF x.nan \/ x.value = 0 THEN 0 ELSE x.value

\* s || '0' for a string s
OrZeroString(s) == IF s = <<>> THEN <<"0">> ELSE s

\* a >= b for numbers: false when either side is NaN
GreaterOrEqual(a, b) == ~a.nan /\ ~b.nan /\ a.value >= b.value

\* Math.abs(n)
Abs(n) == IF n < 0 THEN 0 - n ELSE n

\* handleParse: candidateExp >= jdExp ? 'Qualified' : 'Not Qualified'
experienceResult(candidateExperience, jdExperience) ==
    IF GreaterOrEqual(parseInt(OrZeroString(candidateExperience)),
                      parseInt(OrZeroString(jdExperience)))
    THEN "Qualified" ELSE "Not Qualified"

\* CandidateTable: getExperienceResult(candidateExp, jdExp)
getExperienceResult(candidateExp, jdExp) ==
    IF OrZero(parseInt(candidateExp)) >= OrZero(parseInt(jdExp))
    THEN "Qualified" ELSE "Not Qualified"

\* ParsingHistory: getExperienceResult(candidateExp, jdExp)
HistoryGetExperienceResult(candidateExp, jdExp) ==
    IF Abs(OrZero(parseInt(candidateExp)) - OrZero(parseInt(jdExp))) <= 1
    THEN "Qualified" ELSE "Not Qualified"

x_0 == <<"0">>
x_1 == <<"1">>
x_3 == <<"3">>
x_5 == <<"5">>
x_12 == <<"1","2">>
x_minus2 == <<"-","2">>
x_words == <<"t","e","n">>
x_5years == <<"5"," ","y","e","a","r","s">>
x_5plus == <<"5","+">>
x_padded == <<" ","4">>
x_fraction == <<"3",".","5">>

\* the experience values of a candidate or a job description
ExperienceValues ==
    {<<>>, x_0, x_1, x_3, x_5, x_12, x_minus2, x_words, x_5years, x_5plus, x_padded, x_fraction}

InitQualify ==
    /\ qxCandidate \in ExperienceValues
    /\ qxJd \in ExperienceValues
    /\ qxCall = None
    /\ MatchIdle
    /\ SessionIdle
    /\ ParseIdle
    /\ BatchIdle
    /\ ExperienceIdle
    /\ ContactIdle
    /\ SkillsIdle
    /\ GetTextIdle
    /\ IndexIdle
    /\ RetryIdle
    /\ ResumeUploadIdle

\* one row's verdict at a call site
Verdict(site, result) ==
    /\ qxCall = None
    /\ qxCall' = <<[site |-> site, result |-> result]>>
    /\ UNCHANGED <<qxCandidate, qxJd>>
    /\ UNCHANGED <<matchVars, sessionVars, parseVars, batchVars, experienceVars, contactVars,
                   skillsVars, getTextVars, indexVars, retryVars, resumeUploadVars>>

\* handleParse: a row of reportData
ReportRow == Verdict("handleParse", experienceResult(qxCandidate, qxJd))

\* CandidateTable: getExperienceResult(candidate.experience || '0', jd.experience || '0')
TableRow ==
    Verdict("CandidateTable",
            getExperienceResult(OrZeroString(qxCandidate), OrZeroString(qxJd)))

\* ParsingHistory: getExperienceResult(candidate.experience, jd.experience || '0')
HistoryRow ==
    Verdict("ParsingHistory", HistoryGetExperienceResult(qxCandidate, OrZeroString(qxJd)))

NextQualify ==
    \/ ReportRow
    \/ TableRow
    \/ HistoryRow

SpecQualify == InitQualify /\ [][NextQualify]_vars

(***************************************************************************)
(* getTextFromFile (utils/parser/documentTextExtractor.ts).  A file is its *)
(* MIME type, the extension of its name and what the decoding libraries    *)
(* make of its bytes: whether pdf.js / mammoth can open it, what each PDF  *)
(* page yields, and whether Tesseract recognises it.  The text of a page   *)
(* is kept as one token; the layout pass of extractTextFromPDF is not      *)
(* followed character by character.                                       *)
(***************************************************************************)
MimeTypes ==
    {"application/pdf", "application/vnd.openxmlformats-officedocument.wordprocessingml.document",
     "application/msword", "text/plain", "image/jpeg", "image/png", "image/tiff", "", "image/gif"}

Extensions == {".pdf", ".docx", ".txt", ".png", ".jpg", ".tif", ".gif"}

\* what page.getTextContent() does on a page
PageKinds == {"text", "blank", "unreadable"}

\* the pages of the documents
PageLists == {<<"text">>, <<"blank">>, <<"unreadable">>, <<"text", "unreadable">>}

DocumentFiles ==
    [type : MimeTypes, ext : Extensions, corrupt : BOOLEAN, pages : PageLists, ocrFails : BOOLEAN]

Resolved(text) == [status |-> "resolved", text |-> text]
Rejected(message) == [status |-> "rejected", text |-> message]

\* extractTextFromImage: data.text, '' when Tesseract throws
extractTextFromImage(file) ==
    IF file.ocrFails THEN Resolved(<<>>) ELSE Resolved(<<"recognised">>)

\* extractTextFromPDF, first pass: the text of page i, '' when the page has
\* no items or reading it throws
PageText(kind) == IF kind = "text" THEN "page" ELSE ""

\* extractTextFromPDF(file)
extractTextFromPDF(file) ==
    IF file.corrupt THEN Rejected("getDocument")
    ELSE Resolved([i \in 1..Len(file.pages) |-> PageText(file.pages[i])])

\* getTextFromFile, "Try a simpler approach as fallback": no page is guarded
FallbackPDF(file) ==
    IF file.corrupt \/ \E i \in 1..Len(file.pages) : file.pages[i] = "unreadable"
    THEN Rejected("Failed to parse PDF")
    ELSE Resolved([i \in 1..Len(file.pages) |-> PageText(file.pages[i])])

\* the PDF branch of getTextFromFile
PDFBranch(file) ==
    IF extractTextFromPDF(file).status = "resolved" THEN extractTextFromPDF(file)
    ELSE FallbackPDF(file)

\* mammoth.extractRawText({ arrayBuffer })
DOCXBranch(file) ==
    IF file.corrupt THEN Rejected("mammoth") ELSE Resolved(<<"document">>)

\* file.type === 'application/pdf' || file.name.toLowerCase().endsWith('.pdf')
IsPDF(type, file) == type = "application/pdf" \/ file.ext = ".pdf"

IsImageType(type) == type \in {"image/jpeg", "image/png", "image/tiff"}

\* the type an empty MIME type is replaced by, "" when the extension is unknown
TypeOfExtension(ext) ==
    CASE ext = ".docx" -> "application/vnd.openxmlformats-officedocument.wordprocessingml.document"
      [] ext = ".txt" -> "text/plain"
      [] ext = ".png" -> "image/png"
      [] ext \in {".jpg", ".tif"} -> "image/jpeg"
      [] OTHER -> ""

InitGetText ==
    /\ gtFile \in DocumentFiles
    /\ gtType = gtFile.type
    /\ gtResult = None
    /\ MatchIdle
    /\ SessionIdle
    /\ ParseIdle
    /\ BatchIdle
    /\ ExperienceIdle
    /\ ContactIdle
    /\ SkillsIdle
    /\ QualifyIdle
    /\ IndexIdle
    /\ RetryIdle
    /\ ResumeUploadIdle

\* getTextFromFile settles: the catch wraps every error into a rejection
Settle(branch) ==
    /\ gtResult' = <<branch>>
    /\ UNCHANGED <<gtFile, gtType>>
    /\ UNCHANGED <<matchVars, sessionVars, parseVars, batchVars, experienceVars, contactVars,
                   skillsVars, qualifyVars, indexVars, retryVars, resumeUploadVars>>

Pending == gtFile # <<>> /\ gtResult = None

ReadPDF ==
    /\ Pending /\ IsPDF(gtType, gtFile)
    /\ Settle(PDFBranch(gtFile))

ReadDOCX ==
    /\ Pending /\ ~IsPDF(gtType, gtFile)
    /\ gtType = "application/vnd.openxmlformats-officedocument.wordprocessingml.document"
    /\ Settle(DOCXBranch(gtFile))

RejectDOC ==
    /\ Pending /\ ~IsPDF(gtType, gtFile)
    /\ gtType = "application/msword"
    /\ Settle(Rejected("DOC format is not supported"))

ReadPlainText ==
    /\ Pending /\ ~IsPDF(gtType, gtFile)
    /\ gtType = "text/plain"
    /\ Settle(Resolved(<<"plain">>))

ReadImage ==
    /\ Pending /\ ~IsPDF(gtType, gtFile)
    /\ IsImageType(gtType)
    /\ Settle(extractTextFromImage(gtFile))

\* file.type === '': getTextFromFile(new File([file], file.name, { type }))
Retype ==
    /\ Pending /\ ~IsPDF(gtType, gtFile)
    /\ gtType = "" /\ TypeOfExtension(gtFile.ext) # ""
    /\ gtType' = TypeOfExtension(gtFile.ext)
    /\ UNCHANGED <<gtFile, gtResult>>
    /\ UNCHANGED <<matchVars, sessionVars, parseVars, batchVars, experienceVars, contactVars,
                   skillsVars, qualifyVars, indexVars, retryVars, resumeUploadVars>>

RejectUnsupported ==
    /\ Pending /\ ~IsPDF(gtType, gtFile)
    /\ \/ gtType = "" /\ TypeOfExtension(gtFile.ext) = ""
       \/ gtType = "image/gif"
    /\ Settle(Rejected("Unsupported file type"))

NextGetText ==
    \/ ReadPDF
    \/ ReadDOCX
    \/ RejectDOC
    \/ ReadPlainText
    \/ ReadImage
    \/ Retype
    \/ RejectUnsupported

SpecGetText == InitGetText /\ [][NextGetText]_vars

(***************************************************************************)
(* The Index page with its limits and with overlapping handlers.  An       *)
(* upload area is disabled only while its own upload runs (FileUpload:     *)
(* disabled: isUploading), so the other upload handler can be called while *)
(* one is between its awaits.  A document is known by the number of the    *)
(* call that uploaded it; a run keeps the lists of the render its handler  *)
(* was created in.                                                         *)
(***************************************************************************)
\* model bounds: handler calls in a session, handlers in flight at once
MaxCalls == 5
MaxRuns == 2

\* files.length of an upload of job descriptions, of resumes
JDFileCounts == {1, MAX_JD_COUNT, MAX_BATCH_SIZE + 1}
ResumeFileCounts == {1, 13, MAX_BATCH_SIZE + 1}

\* n documents of upload id
Uploaded(id, n) == [i \in 1..n |-> id]

\* the run of a handler between its awaits
HandlerRun(id, handler, n) ==
    [id |-> id, handler |-> handler, files |-> n,
     jobDescriptions |-> ixJobDescriptions, candidates |-> ixCandidates]

\* what the last step of a handler did
Step(handler, outcome, detail) == [handler |-> handler, outcome |-> outcome, detail |-> detail]

\* handleParse after its awaits: whether getUser gave a user, how the history insert
\* ended, whether XLSX.writeFile returned
Detail(user, insert, written) == [user |-> user, insert |-> insert, written |-> written]
NoDetail == Detail(FALSE, "", FALSE)
NoStep == Step("", "", NoDetail)

\* Generate Report is rendered when both lists are non-empty, and disabled={isProcessing}
GenerateReportEnabled ==
    Len(ixJobDescriptions) > 0 /\ Len(ixCandidates) > 0 /\ ~ixIsProcessing

InitIndex ==
    /\ ixJobDescriptions = <<>>
    /\ ixCandidates = <<>>
    /\ ixIsProcessing = FALSE
    /\ ixRuns = {}
    /\ ixCalls = 0
    /\ ixLast = NoStep
    /\ MatchIdle
    /\ SessionIdle
    /\ ParseIdle
    /\ BatchIdle
    /\ ExperienceIdle
    /\ ContactIdle
    /\ SkillsIdle
    /\ QualifyIdle
    /\ GetTextIdle
    /\ RetryIdle
    /\ ResumeUploadIdle

\* the handler has a run between its awaits
Running(handler) == \E run \in ixRuns : run.handler = handler

\* a handler returns before setIsProcessing(true)
Refuse(handler) ==
    /\ ixCalls < MaxCalls
    /\ ~Running(handler)
    /\ ixCalls' = ixCalls + 1
    /\ ixLast' = Step(handler, "refused", NoDetail)
    /\ UNCHANGED <<ixJobDescriptions, ixCandidates, ixIsProcessing, ixRuns>>
    /\ UNCHANGED <<matchVars, sessionVars, parseVars, batchVars, experienceVars, contactVars,
                   skillsVars, qualifyVars, getTextVars, retryVars, resumeUploadVars>>

\* a handler reaches its first await: setIsProcessing(true)
Begin(handler, n) ==
    /\ ixCalls < MaxCalls
    /\ ~Running(handler)
    /\ Cardinality(ixRuns) < MaxRuns
    /\ ixCalls' = ixCalls + 1
    /\ ixRuns' = ixRuns \cup {HandlerRun(ixCalls + 1, handler, n)}
    /\ ixIsProcessing' = TRUE
    /\ ixLast' = Step(handler, "called", NoDetail)
    /\ UNCHANGED <<ixJobDescriptions, ixCandidates>>
    /\ UNCHANGED <<matchVars, sessionVars, parseVars, batchVars, experienceVars, contactVars,
                   skillsVars, qualifyVars, getTextVars, retryVars, resumeUploadVars>>

\* a handler runs from its last await to the end: finally { setIsProcessing(false) }
End(run, outcome, detail) ==
    /\ ixRuns' = ixRuns \ {run}
    /\ ixIsProcessing' = FALSE
    /\ ixLast' = Step(run.handler, outcome, detail)
    /\ UNCHANGED ixCalls
    /\ UNCHANGED <<matchVars, sessionVars, parseVars, batchVars, experienceVars, contactVars,
                   skillsVars, qualifyVars, getTextVars, retryVars, resumeUploadVars>>

\* handleJDUpload: files.length > MAX_BATCH_SIZE, or the list would pass MAX_JD_COUNT
JDUploadRefused ==
    \E n \in JDFileCounts :
        /\ n > MAX_BATCH_SIZE \/ Len(ixJobDescriptions) + n > MAX_JD_COUNT
        /\ Refuse("handleJDUpload")

JDUploadCalled ==
    \E n \in JDFileCounts :
        /\ ~(n > MAX_BATCH_SIZE)
        /\ ~(Len(ixJobDescriptions) + n > MAX_JD_COUNT)
        /\ Begin("handleJDUpload", n)

\* handleJDUpload after getUser and processBatch: setJobDescriptions(prev => [...prev,
\* ...parsedJDs]) and, when the render's candidates were not empty, setCandidates of them
JDUploadSettled ==
    \E run \in ixRuns : \E user \in BOOLEAN :
        /\ run.handler = "handleJDUpload"
        /\ IF user
           THEN /\ ixJobDescriptions' = ixJobDescriptions \o Uploaded(run.id, run.files)
                /\ ixCandidates' = IF Len(run.candidates) > 0 THEN run.candidates
                                   ELSE ixCandidates
                /\ End(run, "added", NoDetail)
           ELSE /\ UNCHANGED <<ixJobDescriptions, ixCandidates>>
                /\ End(run, "failed", NoDetail)

\* handleResumeUpload: files.length > MAX_BATCH_SIZE, or the list would pass MAX_RESUME_COUNT
ResumeUploadRefused ==
    \E n \in ResumeFileCounts :
        /\ n > MAX_BATCH_SIZE \/ Len(ixCandidates) + n > MAX_RESUME_COUNT
        /\ Refuse("handleResumeUpload")

ResumeUploadCalled ==
    \E n \in ResumeFileCounts :
        /\ ~(n > MAX_BATCH_SIZE)
        /\ ~(Len(ixCandidates) + n > MAX_RESUME_COUNT)
        /\ Begin("handleResumeUpload", n)

\* handleResumeUpload after processBatch: setCandidates(prev => [...prev, ...newCandidates])
ResumeUploadSettled ==
    \E run \in ixRuns :
        /\ run.handler = "handleResumeUpload"
        /\ ixCandidates' = ixCandidates \o Uploaded(run.id, run.files)
        /\ UNCHANGED ixJobDescriptions
        /\ End(run, "added", NoDetail)

\* handleParse called with an empty list: the toast and return
ParseRefused ==
    /\ Len(ixJobDescriptions) = 0 \/ Len(ixCandidates) = 0
    /\ Refuse("handleParse")

\* Generate Report is clicked
ParseCalled ==
    /\ GenerateReportEnabled
    /\ Begin("handleParse", 0)

\* ReachesTheEnd, were a failed history insert to stop handleParse
ReachesTheEnd_NeedsHistory(user, insert, written) == user /\ written /\ insert = "saved"

\* the try block of handleParse runs to its end: there is a user and XLSX.writeFile
\* returns; an insertError or a rejected insert is logged only
ReachesTheEnd(user, insert, written) == user /\ written

\* handleParse after getUser: the history insert (its failure is logged only), the
\* workbook, and then setJobDescriptions([]) and setCandidates([]); nothing is set
\* when there is no user or XLSX.writeFile throws
ParseSettled ==
    \E run \in ixRuns : \E user \in BOOLEAN :
      \E insert \in {"saved", "insertError", "rejected"} : \E written \in BOOLEAN :
        /\ run.handler = "handleParse"
        /\ IF ReachesTheEnd(user, insert, written)
           THEN /\ ixJobDescriptions' = <<>>
                /\ ixCandidates' = <<>>
                /\ End(run, "report", Detail(user, insert, written))
           ELSE /\ UNCHANGED <<ixJobDescriptions, ixCandidates>>
                /\ End(run, "failed", Detail(user, insert, written))

NextIndex ==
    \/ JDUploadRefused
    \/ JDUploadCalled
    \/ JDUploadSettled
    \/ ResumeUploadRefused
    \/ ResumeUploadCalled
    \/ ResumeUploadSettled
    \/ ParseRefused
    \/ ParseCalled
    \/ ParseSettled

SpecIndex == InitIndex /\ [][NextIndex]_vars

(***************************************************************************)
(* retryWithExponentialBackoff (supabase/functions/parse-document).  The   *)
(* operation is the call of the model API: each attempt either resolves    *)
(* with a result or rejects with an error, which has a message or none.    *)
(***************************************************************************)
maxRetries == 5
baseDelay == 1000

e_429 == <<"4","2","9"," ","T","o","o"," ","M","a","n","y"," ","R","e","q","u","e","s","t","s">>
e_quota == <<"Y","o","u"," ","e","x","c","e","e","d","e","d"," ","y","o","u","r"," ","c","u","r","r","e","n","t"," ","q","u","o","t","a">>
e_exhausted == <<"R","e","s","o","u","r","c","e"," ","h","a","s"," ","b","e","e","n"," ","e","x","h","a","u","s","t","e","d">>
e_network == <<"f","e","t","c","h"," ","f","a","i","l","e","d">>

\* what an attempt can end in: a result, an error with a message, an error without one
Results == {"result A", "result B"}
ErrorMessages == {e_429, e_quota, e_exhausted, e_network}
NoMessage == <<"undefined">>
Errors == [message : ErrorMessages \cup {NoMessage}]

\* error.message?.includes('429') || error.message?.includes('quota')
IsRateLimit(error) ==
    /\ error.message # NoMessage
    /\ Includes(error.message, <<"4", "2", "9">>) \/ Includes(error.message, <<"q", "u", "o", "t", "a">>)

\* operation() resolved with a result, rejected with an error
Resolves(result) == [ok |-> TRUE, result |-> result, error |-> <<>>]
Rejects(error) == [ok |-> FALSE, result |-> "", error |-> <<error>>]

\* retryWithExponentialBackoff returns a result, throws an error
Returns(result) == [status |-> "returned", result |-> result, error |-> <<>>]
Throws(error) == [status |-> "thrown", result |-> "", error |-> <<error>>]

\* Math.pow(2, i)
RECURSIVE Pow2(_)
Pow2(i) == IF i = 0 THEN 1 ELSE 2 * Pow2(i - 1)

\* const delay = baseDelay * Math.pow(2, i)
Delay(i) == baseDelay * Pow2(i)

InitRetry ==
    /\ rtPc = "attempt"
    /\ rtI = 0
    /\ rtLastError = None
    /\ rtAttempts = <<>>
    /\ rtDelays = <<>>
    /\ rtSettled = None
    /\ MatchIdle
    /\ SessionIdle
    /\ ParseIdle
    /\ BatchIdle
    /\ ExperienceIdle
    /\ ContactIdle
    /\ SkillsIdle
    /\ QualifyIdle
    /\ GetTextIdle
    /\ IndexIdle
    /\ ResumeUploadIdle

\* return await operation()
Succeed ==
    /\ rtPc = "attempt"
    /\ \E result \in Results :
        /\ rtAttempts' = Append(rtAttempts, Resolves(result))
        /\ rtSettled' = <<Returns(result)>>
    /\ rtPc' = "done"
    /\ UNCHANGED <<rtI, rtLastError, rtDelays>>
    /\ UNCHANGED <<matchVars, sessionVars, parseVars, batchVars, experienceVars, contactVars,
                   skillsVars, qualifyVars, getTextVars, indexVars, resumeUploadVars>>

\* catch (error): a rate limit error, the timer is set
RateLimited ==
    /\ rtPc = "attempt"
    /\ \E error \in Errors :
        /\ IsRateLimit(error)
        /\ rtAttempts' = Append(rtAttempts, Rejects(error))
        /\ rtLastError' = <<error>>
    /\ rtDelays' = Append(rtDelays, Delay(rtI))
    /\ rtPc' = "waiting"
    /\ UNCHANGED <<rtI, rtSettled>>
    /\ UNCHANGED <<matchVars, sessionVars, parseVars, batchVars, experienceVars, contactVars,
                   skillsVars, qualifyVars, getTextVars, indexVars, resumeUploadVars>>

\* catch (error): "If it's not a rate limit error, throw immediately"
Rethrow ==
    /\ rtPc = "attempt"
    /\ \E error \in Errors :
        /\ ~IsRateLimit(error)
        /\ rtAttempts' = Append(rtAttempts, Rejects(error))
        /\ rtLastError' = <<error>>
        /\ rtSettled' = <<Throws(error)>>
    /\ rtPc' = "done"
    /\ UNCHANGED <<rtI, rtDelays>>
    /\ UNCHANGED <<matchVars, sessionVars, parseVars, batchVars, experienceVars, contactVars,
                   skillsVars, qualifyVars, getTextVars, indexVars, resumeUploadVars>>

\* the timer fires: continue, i++, and i < maxRetries holds
Retry ==
    /\ rtPc = "waiting"
    /\ rtI + 1 < maxRetries
    /\ rtI' = rtI + 1
    /\ rtPc' = "attempt"
    /\ UNCHANGED <<rtLastError, rtAttempts, rtDelays, rtSettled>>
    /\ UNCHANGED <<matchVars, sessionVars, parseVars, batchVars, experienceVars, contactVars,
                   skillsVars, qualifyVars, getTextVars, indexVars, resumeUploadVars>>

\* the timer fires: continue, i++, the loop ends: throw lastError
GiveUp ==
    /\ rtPc = "waiting"
    /\ ~(rtI + 1 < maxRetries)
    /\ rtI' = rtI + 1
    /\ rtSettled' = <<Throws(rtLastError[1])>>
    /\ rtPc' = "done"
    /\ UNCHANGED <<rtLastError, rtAttempts, rtDelays>>
    /\ UNCHANGED <<matchVars, sessionVars, parseVars, batchVars, experienceVars, contactVars,
                   skillsVars, qualifyVars, getTextVars, indexVars, resumeUploadVars>>

NextRetry ==
    \/ Succeed
    \/ RateLimited
    \/ Rethrow
    \/ Retry
    \/ GiveUp

SpecRetry == InitRetry /\ [][NextRetry]_vars

\* every promise settles: the operation resolves or rejects, the timer fires
SpecRetryFair == SpecRetry /\ WF_vars(NextRetry)

(***************************************************************************)
(* handleResumeUpload over processBatch: the parsed records are paired     *)
(* with the files by their index in the returned list.  A parse that fails *)
(* (the text cannot be read, the oracle fails) ends in parseDocument's     *)
(* catch block, which returns a record built from the file name.           *)
(***************************************************************************)
\* model bound: files of one upload
MaxUploadFiles == 6

\* files[k].name
UploadName(k) == <<"cv1.pdf", "cv2.pdf", "cv3.pdf", "cv4.pdf", "cv5.pdf", "cv6.pdf", "cv7.pdf">>[k]

\* what parseDocument(file, 'resume') resolves with: the record of the main path, or
\* the record of the catch block when parsing failed
ParsedRecord(file, outcome) == [file |-> file, parsed |-> outcome = "parsed"]

\* a parseDocument call that rejects when parsing fails
Settles_Rejecting(outcome) == IF outcome = "failed" THEN "rejected" ELSE "fulfilled"

\* how the promise of a parseDocument call settles: the body is inside try/catch and
\* the catch block returns a record
Settles(outcome) == "fulfilled"

\* processBatch(files, 'resume'): the values of the fulfilled calls, sub-batch by
\* sub-batch, in index order
ProcessBatch(files, outcomes) ==
    LET calls == [k \in 1..Len(files) |-> Settles(outcomes[k])]
        kept == Fulfilled(calls, 1, Len(files))
    IN  [i \in 1..Len(kept) |-> ParsedRecord(files[kept[i]], outcomes[kept[i]])]

\* parsedResumes.map((parsed, index) => ({..., fileName: files[index].name}))
NewCandidates(files, parsedResumes) ==
    [index \in 1..Len(parsedResumes) |->
        [fileName |-> files[index], record |-> parsedResumes[index]]]

InitResumeUpload ==
    /\ \E n \in 1..MaxUploadFiles :
        /\ ruFiles = [k \in 1..n |-> UploadName(k)]
        /\ ruOutcomes \in [1..n -> {"parsed", "failed"}]
    /\ ruParsedResumes = None
    /\ ruNewCandidates = None
    /\ MatchIdle
    /\ SessionIdle
    /\ ParseIdle
    /\ BatchIdle
    /\ ExperienceIdle
    /\ ContactIdle
    /\ SkillsIdle
    /\ QualifyIdle
    /\ GetTextIdle
    /\ IndexIdle
    /\ RetryIdle

\* const parsedResumes = await processBatch(files, 'resume', ...)
AwaitProcessBatch ==
    /\ ruFiles # <<>> /\ ruParsedResumes = None
    /\ ruParsedResumes' = <<ProcessBatch(ruFiles, ruOutcomes)>>
    /\ UNCHANGED <<ruFiles, ruOutcomes, ruNewCandidates>>
    /\ UNCHANGED <<matchVars, sessionVars, parseVars, batchVars, experienceVars, contactVars,
                   skillsVars, qualifyVars, getTextVars, indexVars, retryVars>>

\* const newCandidates = parsedResumes.map(...).filter(candidate => candidate !== null)
MapToCandidates ==
    /\ ruParsedResumes # None /\ ruNewCandidates = None
    /\ ruNewCandidates' = <<NewCandidates(ruFiles, ruParsedResumes[1])>>
    /\ UNCHANGED <<ruFiles, ruOutcomes, ruParsedResumes>>
    /\ UNCHANGED <<matchVars, sessionVars, parseVars, batchVars, experienceVars, contactVars,
                   skillsVars, qualifyVars, getTextVars, indexVars, retryVars>>

NextResumeUpload ==
    \/ AwaitProcessBatch
    \/ MapToCandidates

SpecResumeUpload == InitResumeUpload /\ [][NextResumeUpload]_vars

(***************************************************************************)
(* Claims about the matcher                                                *)
(***************************************************************************)

\* the string entries of a list, lower-cased and trimmed
StringsOf(list) ==
    LET strs == SelectSeq(list, IsString)
    IN  [i \in 1..Len(strs) |-> Trim(ToLowerCase(strs[i].value))]

\* c contains r as a whole space-delimited word (or is r)
ContainsWord(c, r) ==
    \/ c = r
    \/ StartsWith(c, r \o <<" ">>)
    \/ EndsWith(c, <<" ">> \o r)
    \/ Includes(c, <<" ">> \o r \o <<" ">>)

TierExact(r, cand) == \E j \in 1..Len(cand) : cand[j] = r

TierPartial(r, cand) ==
    /\ Includes(r, <<" ">>)
    /\ \E j \in 1..Len(cand) :
          \A k \in 1..Len(SplitOnSpace(r)) : Includes(cand[j], SplitOnSpace(r)[k])

TierSubstantial(r, cand) ==
    \E j \in 1..Len(cand) : ContainsWord(cand[j], r) \/ ContainsWord(r, cand[j])

InGroup(r, g) == \E e \in 1..Len(technologyEquivalents[g]) : technologyEquivalents[g][e] = r

TierEquivalent(r, cand) ==
    \E g \in 1..Len(technologyEquivalents) :
        /\ InGroup(r, g)
        /\ \E j \in 1..Len(cand) : \E e \in 1..Len(technologyEquivalents[g]) :
              ContainsWord(cand[j], technologyEquivalents[g][e])

MatchedByATier(r, cand) ==
    TierExact(r, cand) \/ TierPartial(r, cand) \/ TierSubstantial(r, cand) \/ TierEquivalent(r, cand)

\* round(100 * m / n), m = the required entries matched by at least one tier
ContractPercentage(candSkills, reqSkills) ==
    LET req == StringsOf(reqSkills)
        cand == StringsOf(candSkills)
    IN  IF Len(req) = 0 \/ Len(cand) = 0 THEN 0
        ELSE RoundDiv(100 * Cardinality({ i \in 1..Len(req) : MatchedByATier(req[i], cand) }),
                      Len(req))

\* C1: each copy of calculateMatchPercentage returns 0 for an empty (or string-free)
\* list and otherwise round(100 * m / n), n the normalized required skills and m
\* those of them matched by at least one of the four tiers.
C1_ContractPercentage ==
    /\ matchPercentage # None =>
          matchPercentage[1] = ContractPercentage(candidateSkills, requiredSkills)
    /\ tableMatchPercentage # None =>
          tableMatchPercentage[1] = ContractPercentage(candidateSkills, requiredSkills)

\* a required skill that is one word and belongs to no equivalence group
SingleWordNoGroup(r) ==
    /\ ~Includes(r, <<" ">>)
    /\ \A g \in 1..Len(technologyEquivalents) : ~InGroup(r, g)

\* the most required entries the claim lets a matcher count: every entry that is not
\* a single group-free word, and the single group-free words some candidate skill
\* equals or contains as a whole word
WordBound(candSkills, reqSkills) ==
    LET req == StringsOf(reqSkills)
        cand == StringsOf(candSkills)
    IN  Cardinality({ i \in 1..Len(req) :
            SingleWordNoGroup(req[i]) => \E j \in 1..Len(cand) : ContainsWord(cand[j], req[i]) })

\* C9: a single-word required skill outside every equivalence group is counted only
\* if a candidate skill equals it or contains it as a whole space-delimited word, so
\* the percentage never exceeds the one obtained by counting exactly those entries.
C9_WordBoundary ==
    /\ matchPercentage # None /\ StringsOf(requiredSkills) # <<>> =>
          matchPercentage[1] <= RoundDiv(100 * WordBound(candidateSkills, requiredSkills),
                                         Len(StringsOf(requiredSkills)))
    /\ tableMatchPercentage # None /\ StringsOf(requiredSkills) # <<>> =>
          tableMatchPercentage[1] <= RoundDiv(100 * WordBound(candidateSkills, requiredSkills),
                                              Len(StringsOf(requiredSkills)))

\* required 'java' against candidate 'javascript' has been scored 0 by both copies
C9_Witness ==
    /\ requiredSkills = <<Str(s_java)>>
    /\ candidateSkills = <<Str(s_javascript)>>
    /\ matchPercentage = <<0>>
    /\ tableMatchPercentage = <<0>>

\* C10: for all lists, repeated, empty and non-string entries included, each copy
\* returns an integer between 0 and 100.
C10_PercentageRange ==
    /\ matchPercentage # None => matchPercentage[1] \in 0..100
    /\ tableMatchPercentage # None => tableMatchPercentage[1] \in 0..100

\* a repeated required entry next to a non-string candidate list entry has been scored
C10_Witness ==
    /\ requiredSkills = <<Str(s_java), Str(s_java)>>
    /\ candidateSkills = <<Str(s_java)>>
    /\ matchPercentage = <<100>>
    /\ tableMatchPercentage = <<100>>

(***************************************************************************)
(* Claims about the Index page                                             *)
(***************************************************************************)

\* C2: whatever the order of the uploads, every row of the report written by
\* handleParse carries, as 'Skills Match %', calculateMatchPercentage of the
\* candidate's skills and the job description's skills held at report time.
C2_ReportMatchesSkills ==
    \A n \in 1..Len(reportData) :
        reportData[n].skillsMatch =
            calculateMatchPercentage(reportData[n].candidateSkills, reportData[n].jdSkills)

(***************************************************************************)
(* Claims about parseDocument                                              *)
(***************************************************************************)

\* the call went through the oracle and returned the record built after it
ResolvedAfterOracle ==
    pdPc = "resolved" /\ pdParsedData # None /\ pdFallbackText = None

LocalFields(type, record) ==
    IF type = "resume"
    THEN <<record.name, record.email, record.phone, record.skills, record.experience>>
    ELSE <<record.skills, record.experience>>

\* C4: when the oracle call fails, name, email, phone, skills and experience of the
\* returned record are the values of the local heuristics, the record parseDocument
\* builds without any oracle data.
C4_FailureGivesLocalRecord ==
    (ResolvedAfterOracle /\ pdOracle \in GeminiFailures) =>
        LocalFields(pdType, pdResult[1]) =
            LocalFields(pdType, MainResult(pdType, StripExtension(pdFile.name),
                                           pdFile.text, NoParsedData))

\* the record the catch block returns when there is no text
MinimalRecord(type, fileName) ==
    IF type = "resume"
    THEN [title |-> fileName, name |-> fileName, email |-> "", phone |-> "",
          skills |-> <<>>, experience |-> "", education |-> "", responsibilities |-> <<>>]
    ELSE [title |-> fileName, skills |-> <<>>, experience |-> "", responsibilities |-> <<>>]

\* C5: parseDocument never rejects and never stops before it has resolved with a
\* record, whatever the file, the text and the oracle do; when no text could be
\* extracted the record has the file name without extension as name/title and
\* every other field empty.
C5_AlwaysResolves ==
    /\ pdPc # "rejected"
    /\ pdPc \in {"start", "oracle", "catch"} => ENABLED NextParse
    /\ pdPc = "resolved" => pdResult # None
    /\ (pdPc = "resolved" /\ pdFallbackText # None /\ pdFallbackText[1].kind # "content") =>
            pdResult[1] = MinimalRecord(pdType, StripExtension(pdFile.name))

\* a file that never decodes and whose name has an extension, resolved with the
\* minimal record
C5_Witness ==
    /\ pdPc = "resolved"
    /\ pdFile.decodes = "never"
    /\ pdFile.name = f_resume_asha_pdf
    /\ pdFallbackText = <<EmptyText>>
    /\ pdResult[1].name = StripExtension(f_resume_asha_pdf)
    /\ pdResult[1].name # pdFile.name
    /\ pdResult[1].skills = <<>>

(***************************************************************************)
(* Claims about processBatch                                               *)
(***************************************************************************)

\* C6: processBatch never has more than BATCH_SIZE parseDocument calls in flight,
\* starts the files in input order, lets every started call settle whatever the
\* others do, goes on to the later sub-batches after a rejection, and returns the
\* result of every file whose call fulfilled.
C6_BatchContract ==
    /\ Cardinality(InFlightCalls) <= BATCH_SIZE
    /\ pbStarted = InOrder(1, Len(pbStarted))
    /\ pbPc \in {"loop", "await", "delay"} => ENABLED NextBatch
    /\ pbPc = "returned" =>
        /\ Len(pbStarted) = pbFiles
        /\ pbResults = Fulfilled(pbCalls, 1, pbFiles)
        /\ \A k \in 1..pbFiles : pbCalls[k] \in {"fulfilled", "rejected"}

\* six files, the second rejected in the first sub-batch: the other four of that
\* sub-batch and the file of the second sub-batch are all in the returned list
C6_Witness ==
    /\ pbPc = "returned"
    /\ pbFiles = 6
    /\ pbCalls = <<"fulfilled", "rejected", "fulfilled", "fulfilled", "fulfilled", "fulfilled">>
    /\ pbResults = <<1, 3, 4, 5, 6>>

(***************************************************************************)
(* Claims about the experience estimator                                   *)
(***************************************************************************)

\* the end of a range as a date
RangeEnd(range, today) ==
    IF range.to.present THEN today ELSE [y |-> range.to.y, m |-> range.to.m, d |-> range.to.d]

ValidRange(range, today) == DayNumber(range.from) <= DayNumber(RangeEnd(range, today))

\* the months from a start to an end, both end months counted
MonthsBetween(from, to) == (to.y - from.y) * 12 + (to.m - from.m) + 1

\* a whole number of years as the estimator writes it
YearsString(months) ==
    IF RoundDiv(months, 12) > 0 THEN NumberToString(RoundDiv(months, 12)) ELSE <<>>

\* the two ranges of the work history, the one that starts first in front
EarlierFirst(ranges) ==
    IF DayNumber(ranges[2].from) < DayNumber(ranges[1].from)
    THEN <<ranges[2], ranges[1]>> ELSE ranges

\* the later of two dates
LaterDate(a, b) == IF DayNumber(b) > DayNumber(a) THEN b ELSE a

\* C7: for a work history of two valid date ranges more than 30 days apart the
\* estimator returns the rounded sum of the two durations; a range that overlaps
\* the other adds no months beyond the period the two cover together.
C7_SumOfSeparatePeriods ==
    (exResult # None /\ Len(exRanges) = 2
        /\ \A k \in 1..2 : ValidRange(exRanges[k], exToday)) =>
        LET a == EarlierFirst(exRanges)[1]
            b == EarlierFirst(exRanges)[2]
            aEnd == RangeEnd(a, exToday)
            bEnd == RangeEnd(b, exToday)
            gap == DayNumber(b.from) - DayNumber(aEnd)
        IN  /\ gap > 30 =>
                exResult[1] = YearsString(MonthsBetween(a.from, aEnd) + MonthsBetween(b.from, bEnd))
            /\ gap <= 0 =>
                exResult[1] = YearsString(MonthsBetween(a.from, LaterDate(aEnd, bEnd)))

\* C8: two valid ranges whose gap is at most 30 days count as one period from the
\* first start to the later end, as for 01/2018 - 06/2020, 07/2020 - Present.
C8_AdjacentPeriodsMerge ==
    (exResult # None /\ Len(exRanges) = 2
        /\ \A k \in 1..2 : ValidRange(exRanges[k], exToday)) =>
        LET a == EarlierFirst(exRanges)[1]
            b == EarlierFirst(exRanges)[2]
            aEnd == RangeEnd(a, exToday)
            bEnd == RangeEnd(b, exToday)
            gap == DayNumber(b.from) - DayNumber(aEnd)
        IN  (gap > 0 /\ gap <= 30) =>
                exResult[1] = YearsString(MonthsBetween(a.from, LaterDate(aEnd, bEnd)))

(***************************************************************************)
(* C11: the three copies of the four-tier matcher (the report page, the    *)
(* candidate table, the documented listing) return the same percentage    *)
(* for every pair of skill lists.                                          *)
(***************************************************************************)
C11_ThreeCopiesAgree ==
    /\ matchPercentage # None /\ tableMatchPercentage # None =>
          matchPercentage = tableMatchPercentage
    /\ matchPercentage # None /\ docMatchPercentage # None =>
          docMatchPercentage = <<Num(matchPercentage[1])>>

(***************************************************************************)
(* Claims about phone numbers and e-mail addresses                         *)
(***************************************************************************)
\* the digits of a phone number
DigitsOf(phone) == Keep(phone, Digits)

\* 10 digits not starting 6-9, 11 digits not starting 1, or 91 followed by
\* 10 digits not starting 6-9
Misshapen(phone) ==
    LET digits == DigitsOf(phone)
    IN  \/ Len(digits) = 10 /\ digits[1] \notin {"6", "7", "8", "9"}
        \/ Len(digits) = 11 /\ digits[1] # "1"
        \/ Len(digits) = 12 /\ SubSeq(digits, 1, 2) = <<"9", "1">>
                            /\ digits[3] \notin {"6", "7", "8", "9"}

\* C12: no phone produced by the pipeline (either extractPhones, or the phone
\* parseDocument chooses) has 10 digits not starting with 6-9, 11 digits not
\* starting with 1, or 12 digits starting with 91 whose other 10 digits do not
\* start with 6-9.
C12_NoMisshapenPhone ==
    /\ ctCall.fn \in {"extractPhones", "extractPhonesFromText"} =>
          \A i \in 1..Len(ctCall.returned) : ~Misshapen(ctCall.returned[i])
    /\ ctCall.fn = "parseDocument" => ~Misshapen(ctCall.returned.bestPhone)

\* '+' followed by 10 to 15 digits and nothing else
PlusAndDigits(phone) ==
    /\ Len(phone) >= 11 /\ Len(phone) <= 16
    /\ phone[1] = "+"
    /\ \A i \in 2..Len(phone) : phone[i] \in Digits

\* the cleaned candidate has 10 to 15 digits and isValidPhone accepts it
PassedChecks(cleaned) ==
    /\ Len(Keep(cleaned, Digits)) >= 10
    /\ Len(Keep(cleaned, Digits)) <= 15
    /\ isValidPhone(cleaned, Keep(cleaned, Digits))

ContactPassedChecks(cleaned) ==
    /\ Len(Keep(cleaned, Digits)) >= 10
    /\ Len(Keep(cleaned, Digits)) <= 15
    /\ ContactIsValidPhone(cleaned, Keep(cleaned, Digits))

\* C13: every string returned by extractPhones (both implementations), and the
\* phone returned by extractContactInfo, is empty or '+' followed by 10 to 15
\* digits; cleanPhone never returns formatPhone's empty result for a candidate
\* that passed the digit-count check and isValidPhone.
C13_PhoneFormat ==
    /\ ctCall.fn \in {"extractPhones", "extractPhonesFromText"} =>
          \A i \in 1..Len(ctCall.returned) : PlusAndDigits(ctCall.returned[i])
    /\ ctCall.fn = "extractContactInfo" =>
          ctCall.returned.phone = <<>> \/ PlusAndDigits(ctCall.returned.phone)
    /\ ctCall.fn \in {"cleanPhone", "ContactCleanPhone"} =>
          ctCall.returned = <<>> \/ PlusAndDigits(ctCall.returned)
    /\ (ctCall.fn = "cleanPhone" /\ PassedChecks(Cleaned(ctCandidate)))
          => ctCall.returned # <<>>
    /\ (ctCall.fn = "ContactCleanPhone" /\ ContactPassedChecks(ContactCleaned(ctCandidate)))
          => ctCall.returned # <<>>

\* a candidate written without '+' passed both checks and was formatted
C13_Witness ==
    /\ ctCall.fn = "cleanPhone"
    /\ ctCandidate = Dashed(n_indian)
    /\ ctCall.returned = <<"+", "9", "1">> \o n_indian

p_919876543210 == <<"+","9","1","9","8","7","6","5","4","3","2","1","0">>
us_5551234567 == <<"5","5","5","1","2","3","4","5","6","7">>

\* C15: for the text "Call me at +91 98765 43210 or (555) 123-4567" extractPhones
\* (both implementations) returns exactly two numbers, +919876543210 and a
\* '+'-prefixed form of the US number, each passing isValidPhone.
C15_TwoNumbers ==
    (ctText = x_call_me /\ ctCall.fn \in {"extractPhones", "extractPhonesFromText"}) =>
        /\ Len(ctCall.returned) = 2
        /\ ListIncludes(ctCall.returned, p_919876543210)
        /\ \E i \in 1..Len(ctCall.returned) :
              /\ ctCall.returned[i][1] = "+"
              /\ EndsWith(DigitsOf(ctCall.returned[i]), us_5551234567)
        /\ \A i \in 1..Len(ctCall.returned) :
              IF ctCall.fn = "extractPhones"
              THEN isValidPhone(ctCall.returned[i], DigitsOf(ctCall.returned[i]))
              ELSE ContactIsValidPhone(ctCall.returned[i], DigitsOf(ctCall.returned[i]))

\* the digits of a candidate once a leading '00' is read as '+'
WrittenDigits(candidate) ==
    LET bare == Keep(candidate, Digits)
    IN  IF Len(bare) > 10 /\ SubSeq(bare, 1, 2) = <<"0", "0">>
        THEN SubSeq(bare, 3, Len(bare)) ELSE bare

\* C16: cleanPhone (both implementations) returns '' for every candidate whose
\* digits are 1111111111, 1234567890 or 0123456789, whatever its separators,
\* labels or leading '+' / '00'.
C16_FakeNumbersRejected ==
    (/\ ctCall.fn \in {"cleanPhone", "ContactCleanPhone"}
     /\ WrittenDigits(ctCandidate) \in {d_1111111111, d_1234567890, d_0123456789})
        => ctCall.returned = <<>>

\* 00 (123) 456 7890 was handed to cleanPhone and came back empty
C16_Witness ==
    /\ ctCall.fn = "cleanPhone"
    /\ ctCandidate = <<"0", "0">> \o Bracketed(d_1234567890)
    /\ ctCall.returned = <<>>

\* the part of an address before its first '@'
LocalPartOf(email) == SubSeq(email, 1, IndexOf(email, "@") - 1)
\* the part of an address after its first '@'
DomainOf(email) == SubSeq(email, IndexOf(email, "@") + 1, Len(email))

\* C17: isValidEmail returns false for a string with white space, with more
\* than one '@', with a local part of more than 64 characters, or of a length
\* outside 5..100; so every address extractEmails returns has exactly one '@'
\* and no white space.
C17_EmailShape ==
    /\ (/\ ctCall.fn \in {"isValidEmail", "ContactIsValidEmail"}
        /\ \/ \E i \in 1..Len(ctCandidate) : ctCandidate[i] \in SpaceSet
           \/ CountOf(ctCandidate, "@") > 1
           \/ Len(LocalPartOf(ctCandidate)) > 64
           \/ Len(ctCandidate) < 5
           \/ Len(ctCandidate) > 100)
          => ctCall.returned = FALSE
    /\ ctCall.fn \in {"extractEmails", "extractEmailsFromText"} =>
          \A i \in 1..Len(ctCall.returned) :
              /\ CountOf(ctCall.returned[i], "@") = 1
              /\ \A k \in 1..Len(ctCall.returned[i]) : ctCall.returned[i][k] \notin SpaceSet

\* a string with two '@' was handed to isValidEmail and refused
C17_Witness ==
    /\ ctCall.fn = "isValidEmail"
    /\ ctCandidate = a_two_ats
    /\ ctCall.returned = FALSE

\* an address that is well formed, placeholder or not
WellFormedAddress(email) ==
    /\ Len(email) >= 5 /\ Len(email) <= 100
    /\ CountOf(email, "@") = 1
    /\ LET localPart == LocalPartOf(email)
           domain == DomainOf(email)
       IN  /\ Len(localPart) > 0 /\ Len(localPart) <= 64
           /\ \A i \in 1..Len(localPart) : localPart[i] \in LocalSet
           /\ localPart[1] # "." /\ localPart[Len(localPart)] # "."
           /\ ~Includes(email, <<".", ".">>)
           /\ Len(domain) >= 4
           /\ \A i \in 1..Len(domain) : domain[i] \in DomainSet
           /\ domain[1] \notin {".", "-"} /\ domain[Len(domain)] \notin {".", "-"}
           /\ Includes(domain, <<".">>)
           /\ Len(domain) - LastIndexOf(domain, ".") >= 2

\* C18: isValidEmail rejects a well-formed address as a placeholder only when
\* its domain is a listed placeholder and its local part is shorter than 3
\* characters; a well-formed address with another domain is accepted whatever
\* the length of its local part.
C18_PlaceholderRule ==
    /\ (ctCall.fn = "isValidEmail" /\ WellFormedAddress(ctCandidate)) =>
          (ctCall.returned = FALSE <=>
              /\ ListIncludes(invalidPatterns, DomainOf(ctCandidate))
              /\ Len(LocalPartOf(ctCandidate)) < 3)
    /\ (ctCall.fn = "ContactIsValidEmail" /\ WellFormedAddress(ctCandidate)) =>
          (ctCall.returned = FALSE <=>
              /\ ListIncludes(invalidDomains, DomainOf(ctCandidate))
              /\ Len(LocalPartOf(ctCandidate)) < 3)


(***************************************************************************)
(* Claims about the record parseDocument builds from both sources          *)
(***************************************************************************)
\* the characters of the contact strings the texts and the oracle hold
Spell(s) ==
    CASE s = "asha@corp.test" ->
            <<"a","s","h","a","@","c","o","r","p",".","t","e","s","t">>
      [] s = "a.rao@corp.test" ->
            <<"a",".","r","a","o","@","c","o","r","p",".","t","e","s","t">>
      [] s = "hr@corp.test" ->
            <<"h","r","@","c","o","r","p",".","t","e","s","t">>
      [] s = "asha.r@oracle.test" ->
            <<"a","s","h","a",".","r","@","o","r","a","c","l","e",".","t","e","s","t">>
      [] s = "+919876543210" -> p_919876543210
      [] s = "12345" -> <<"1","2","3","4","5">>
      [] OTHER -> <<>>

\* parseDocument returned the record it builds after the oracle call
ReturnedMainRecord ==
    pdPc = "resolved" /\ pdResult # None /\ pdParsedData # None /\ pdFallbackText = None

\* C14: the email and the phone of every resume record parseDocument returns
\* are empty or locally valid (the email passes isValidEmail, the phone is
\* '+' followed by 10 to 15 digits), also when they come from the oracle.
C14_ContactValuesValid ==
    (pdPc = "resolved" /\ pdResult # None /\ pdType = "resume") =>
        /\ pdResult[1].email = "" \/ isValidEmail(Spell(pdResult[1].email))
        /\ pdResult[1].phone = "" \/ PlusAndDigits(Spell(pdResult[1].phone))

\* C19: parseDocument uses the oracle's experience and education only to fill
\* a field the local heuristic left empty: a non-empty local experience or
\* education is never replaced by the oracle's value.
C19_OracleOnlyFillsGaps ==
    ReturnedMainRecord =>
        /\ pdFile.text.experiencePattern # "" =>
              pdResult[1].experience = pdFile.text.experiencePattern
        /\ (pdType = "resume" /\ pdFile.text.education # "") =>
              pdResult[1].education = pdFile.text.education

\* a list holds the skill, letter case and outer white space apart
HasSkill(list, skill) ==
    \E i \in 1..Len(list) : ToLowerCase(list[i]) = ToLowerCase(Trim(skill))

\* C20: the skills of every record parseDocument returns contain every local
\* skill and every non-empty string skill of the oracle, and no two entries
\* are equal up to letter case; of entries equal up to case the first one's
\* casing is kept.
C20_SkillsUnion ==
    /\ ReturnedMainRecord =>
          LET skills == pdResult[1].skills
              fromOracle == normalizeSkills(pdParsedData[1].skills)
              offered == fromOracle \o pdFile.text.skills
          IN  /\ \A i \in 1..Len(offered) : HasSkill(skills, offered[i])
              /\ \A i \in 1..Len(offered) :
                    (\A k \in 1..(i - 1) : ToLowerCase(offered[k]) # ToLowerCase(offered[i]))
                        => ListIncludes(skills, offered[i])
    /\ (pdPc = "resolved" /\ pdResult # None) =>
          LET skills == pdResult[1].skills
          IN  \A i, j \in 1..Len(skills) :
                  i # j => ToLowerCase(skills[i]) # ToLowerCase(skills[j])


(***************************************************************************)
(* Claims about extractSkillsFromText                                      *)
(***************************************************************************)

\* the first place of a skill in the dictionary
DictionaryIndex(skill) ==
    CHOOSE i \in 1..Len(skillKeywords) :
        /\ skillKeywords[i] = skill
        /\ \A k \in 1..(i - 1) : skillKeywords[k] # skill

\* every element of a list is a literal dictionary entry
OnlyDictionaryEntries(list) ==
    \A i \in 1..Len(list) : ListIncludes(skillKeywords, list[i])

\* no element of a list occurs twice
DuplicateFree(list) ==
    \A i, j \in 1..Len(list) : i # j => list[i] # list[j]

\* the elements of a list come in the order of the dictionary
InDictionaryOrder(list) ==
    \A i, j \in 1..Len(list) :
        i < j => DictionaryIndex(list[i]) < DictionaryIndex(list[j])

\* C21: in base and in aggressive mode the list extractSkillsFromText returns
\* is a duplicate-free subsequence of the skill dictionary: every element is
\* a literal dictionary entry, and the elements come in dictionary order,
\* not in the order the text mentions them or the methods find them.
C21_DictionarySubsequence ==
    skCall # None =>
        /\ OnlyDictionaryEntries(skCall[1].returned)
        /\ DuplicateFree(skCall[1].returned)
        /\ InDictionaryOrder(skCall[1].returned)

\* the part of C21 that holds in both modes: literal entries, none twice
C21_DictionaryEntriesOnce ==
    skCall # None =>
        /\ OnlyDictionaryEntries(skCall[1].returned)
        /\ DuplicateFree(skCall[1].returned)

\* the order part of C21 in base mode
C21_BaseInDictionaryOrder ==
    (skCall # None /\ ~skCall[1].aggressive) => InDictionaryOrder(skCall[1].returned)

(***************************************************************************)
(* Claims about the experience verdict                                     *)
(***************************************************************************)

\* the years a value stands for when a non-numeric or negative value counts as 0
YearsOrZero(s) ==
    IF parseInt(s).nan \/ parseInt(s).value < 0 THEN 0 ELSE parseInt(s).value

\* the verdict a call site gives to the numbers c and j
SiteVerdict(site, c, j) ==
    IF site = "ParsingHistory"
    THEN (IF Abs(c - j) <= 1 THEN "Qualified" ELSE "Not Qualified")
    ELSE (IF c >= j THEN "Qualified" ELSE "Not Qualified")

\* C22: at every experience-qualification call site a non-numeric or negative
\* experience value on either side counts as 0: the verdict is the one the
\* site gives with 0 in that value's place (nothing is thrown: every call
\* returns a verdict).
C22_BadExperienceIsZero ==
    qxCall # None =>
        qxCall[1].result = SiteVerdict(qxCall[1].site, YearsOrZero(qxCandidate), YearsOrZero(qxJd))

\* C22, the part that holds: every call returns one of the two verdicts
C22_NothingThrown ==
    qxCall # None => qxCall[1].result \in {"Qualified", "Not Qualified"}

\* C22 for non-numeric values at the two getExperienceResult sites
C22_NonNumericIsZeroInTables ==
    (/\ qxCall # None
     /\ qxCall[1].site # "handleParse"
     /\ ~(parseInt(qxCandidate).value < 0)
     /\ ~(parseInt(qxJd).value < 0)) =>
        qxCall[1].result = SiteVerdict(qxCall[1].site, YearsOrZero(qxCandidate), YearsOrZero(qxJd))

(***************************************************************************)
(* Claims about getTextFromFile                                            *)
(***************************************************************************)

\* the format is one getTextFromFile decodes
SupportedFormat(file) ==
    \/ file.ext = ".pdf"
    \/ file.type \in (MimeTypes \ {"application/msword", "image/gif", ""})
    \/ file.type = "" /\ TypeOfExtension(file.ext) # ""

\* the file is decoded as a PDF, as a DOCX, or by OCR
DecodedAsPDF(file) == file.ext = ".pdf" \/ file.type = "application/pdf"
DecodedAsDOCX(file) ==
    /\ ~DecodedAsPDF(file)
    /\ \/ file.type = "application/vnd.openxmlformats-officedocument.wordprocessingml.document"
       \/ file.type = "" /\ file.ext = ".docx"
DecodedByOCR(file) ==
    /\ ~DecodedAsPDF(file)
    /\ \/ IsImageType(file.type)
       \/ file.type = "" /\ file.ext \in {".png", ".jpg", ".tif"}

\* decoding the file fails: the format is unsupported, the document is
\* corrupt, a PDF page cannot be read, or OCR fails
DecodingFails(file) ==
    \/ ~SupportedFormat(file)
    \/ DecodedAsPDF(file) /\ (file.corrupt \/ \E i \in 1..Len(file.pages) : file.pages[i] = "unreadable")
    \/ DecodedAsDOCX(file) /\ file.corrupt
    \/ DecodedByOCR(file) /\ file.ocrFails

\* C23: getTextFromFile reports every decoding failure (unsupported format,
\* corrupt or unreadable document, failed OCR, failed PDF page) by rejecting;
\* it returns a string only when decoding succeeded.
C23_FailuresReject ==
    gtResult # None => (gtResult[1].status = "rejected" <=> DecodingFails(gtFile))

\* C23 for the failures that do reject: unsupported formats and corrupt documents
C23_UnsupportedOrCorruptRejects ==
    (/\ gtResult # None
     /\ \/ ~SupportedFormat(gtFile)
        \/ (DecodedAsPDF(gtFile) \/ DecodedAsDOCX(gtFile)) /\ gtFile.corrupt) =>
        gtResult[1].status = "rejected"

(***************************************************************************)
(* Claims about the Index page's limits and its handlers                   *)
(***************************************************************************)

\* C24: after any sequence of uploads and reports the session holds at most
\* MAX_JD_COUNT job descriptions and at most MAX_RESUME_COUNT candidates.
C24_ListsWithinLimits ==
    /\ Len(ixJobDescriptions) <= MAX_JD_COUNT
    /\ Len(ixCandidates) <= MAX_RESUME_COUNT

\* C24, second half: an upload of more than MAX_BATCH_SIZE files, or one that
\* would take a list past its limit, adds nothing.
C24_RefusedUploadAddsNothing ==
    [][(JDUploadRefused \/ ResumeUploadRefused) =>
          /\ ixJobDescriptions' = ixJobDescriptions
          /\ ixCandidates' = ixCandidates
          /\ ixRuns' = ixRuns]_vars

\* C26: handleParse changes the held lists only on success: an early return
\* or a failure (no user, the workbook cannot be written) leaves both lists
\* as they were, success sets both to the empty list, and a history insert
\* that fails or is rejected does not by itself keep the report from being
\* generated and the lists from being cleared.
C26_ParseClearsOnlyOnSuccess ==
    [][(ixLast'.handler = "handleParse" /\ ixLast'.outcome # "called") =>
          IF ixLast'.detail.user /\ ixLast'.detail.written
          THEN ixJobDescriptions' = <<>> /\ ixCandidates' = <<>> /\ ixLast'.outcome = "report"
          ELSE UNCHANGED <<ixJobDescriptions, ixCandidates>>]_vars

\* handleParse has written the report and cleared the lists although the history
\* insert was rejected
C26_ReportDespiteRejectedInsert ==
    /\ ixLast = Step("handleParse", "report", Detail(TRUE, "rejected", TRUE))
    /\ ixJobDescriptions = <<>> /\ ixCandidates = <<>>

\* C30: while any handler is running isProcessing is true, so that Generate
\* Report is disabled: the completion of one handler never clears the flag
\* while another handler is still in flight.
C30_ProcessingWhileRunning ==
    ixRuns # {} => ixIsProcessing /\ ~GenerateReportEnabled

\* C30 while one handler runs alone
C30_ProcessingWhileRunningAlone ==
    [][(ixRuns' # {} /\ ixRuns = {}) => ixIsProcessing']_vars

\* a value that states a number of years: parseInt reads a number that is not negative
StatesYears(s) == ~parseInt(s).nan /\ parseInt(s).value >= 0

\* C25: every report row labels 'Result Based on Experience' as 'Qualified'
\* exactly when the candidate's years are at least the required years, and
\* as 'Not Qualified' otherwise.
C25_QualifiedIffEnoughYears ==
    (qxCall # None /\ StatesYears(qxCandidate) /\ StatesYears(qxJd)) =>
        /\ qxCall[1].result \in {"Qualified", "Not Qualified"}
        /\ qxCall[1].result = "Qualified" <=> parseInt(qxCandidate).value >= parseInt(qxJd).value

\* C25 at the two sites that compare with >=
C25_QualifiedIffEnoughYearsOutsideHistory ==
    (/\ qxCall # None
     /\ qxCall[1].site # "ParsingHistory"
     /\ StatesYears(qxCandidate)
     /\ StatesYears(qxJd)) =>
        (qxCall[1].result = "Qualified" <=> parseInt(qxCandidate).value >= parseInt(qxJd).value)

(***************************************************************************)
(* Claims about retryWithExponentialBackoff                                *)
(***************************************************************************)

\* the call was made again after a failed attempt
Retries == Len(rtAttempts) - 1

\* the call threw a rate-limit error
ThrewRateLimit ==
    rtSettled # None /\ rtSettled[1].status = "thrown" /\ IsRateLimit(rtSettled[1].error[1])

\* the last attempt
LastAttempt == rtAttempts[Len(rtAttempts)]

\* C27, first parts: the call returns the result of the first successful
\* attempt; after the i-th failed attempt (i = 0, 1, ...) with a rate-limit
\* error it waits baseDelay * 2^i; any other error is rethrown at once,
\* without a wait or a further attempt.
C27_FirstSuccessAndBackoff ==
    /\ \A k \in 1..Len(rtDelays) : rtDelays[k] = baseDelay * Pow2(k - 1)
    /\ \A k \in 1..Len(rtAttempts) :
          k < Len(rtAttempts) => ~rtAttempts[k].ok /\ IsRateLimit(rtAttempts[k].error[1])
    /\ rtSettled # None =>
          /\ rtSettled[1].status = "returned" => LastAttempt = Resolves(rtSettled[1].result)
          /\ (rtSettled[1].status = "thrown" /\ ~ThrewRateLimit) =>
                /\ LastAttempt = Rejects(rtSettled[1].error[1])
                /\ Len(rtDelays) = Len(rtAttempts) - 1

\* C27: retryWithExponentialBackoff returns the first successful result; on
\* a rate-limit error it waits baseDelay * 2^i and retries, for 5 retries;
\* another error is rethrown at once; when the retries are exhausted it
\* throws the last error: it gives up only after the 5th retry has failed,
\* and every wait is followed by a retry.
C27_FiveRetries ==
    /\ C27_FirstSuccessAndBackoff
    /\ ThrewRateLimit =>
          /\ Retries = maxRetries
          /\ Len(rtDelays) = Retries
          /\ rtSettled[1].error = LastAttempt.error

\* C27, termination: every call settles
C27_Terminates == <>(rtSettled # None)

\* what the code does when every attempt is rate limited: maxRetries attempts,
\* a wait after each of them, and then the last error
C27_GivesUpAfterMaxRetriesAttempts ==
    ThrewRateLimit =>
        /\ Len(rtAttempts) = maxRetries
        /\ Len(rtDelays) = maxRetries
        /\ rtSettled[1].error = LastAttempt.error

(***************************************************************************)
(* Claims about repeated required skills                                   *)
(***************************************************************************)

\* entry i of a list repeats an earlier string entry, letter case and outer
\* white space apart
RepeatsEarlier(list, i) ==
    /\ IsString(list[i])
    /\ \E j \in 1..(i - 1) :
          /\ IsString(list[j])
          /\ Trim(ToLowerCase(list[j].value)) = Trim(ToLowerCase(list[i].value))

\* a list without its repeated entries
WithoutRepeats(list) ==
    LET kept == SelectSeq([i \in 1..Len(list) |-> i], LAMBDA i : ~RepeatsEarlier(list, i))
    IN  [k \in 1..Len(kept) |-> list[kept[k]]]

\* C28: the match percentage depends only on the set of distinct normalized
\* required skills: listing a required skill twice, or again in another
\* letter case or with surrounding spaces, does not change the result of
\* calculateMatchPercentage (either copy), for any candidate list.
C28_RepeatedRequiredSkill ==
    /\ matchPercentage # None =>
          matchPercentage[1] = calculateMatchPercentage(candidateSkills, WithoutRepeats(requiredSkills))
    /\ tableMatchPercentage # None =>
          tableMatchPercentage[1] =
              TableCalculateMatchPercentage(candidateSkills, WithoutRepeats(requiredSkills))

(***************************************************************************)
(* Claims about the pairing of candidates and files                        *)
(***************************************************************************)

\* C29: every candidate created by handleResumeUpload carries the fileName
\* of the file it was parsed from, whatever subset of the batch failed to
\* parse: the i-th element of the list processBatch returns is the record
\* of files[i].
C29_CandidateCarriesItsFile ==
    /\ ruParsedResumes # None =>
          /\ Len(ruParsedResumes[1]) = Len(ruFiles)
          /\ \A i \in 1..Len(ruParsedResumes[1]) : ruParsedResumes[1][i].file = ruFiles[i]
    /\ ruNewCandidates # None =>
          \A i \in 1..Len(ruNewCandidates[1]) :
              ruNewCandidates[1][i].fileName = ruNewCandidates[1][i].record.file

\* six files of which the second and the fifth failed to parse, and the candidate
\* of the sixth, from the second sub-batch, carries the sixth file's name
C29_Witness ==
    /\ ruNewCandidates # None
    /\ ruOutcomes = <<"parsed", "failed", "parsed", "parsed", "failed", "parsed">>
    /\ Len(ruNewCandidates[1]) = 6
    /\ ruNewCandidates[1][6] = [fileName |-> "cv6.pdf", record |-> ParsedRecord("cv6.pdf", "parsed")]
    /\ ruNewCandidates[1][2] = [fileName |-> "cv2.pdf", record |-> ParsedRecord("cv2.pdf", "failed")]

====
